---------------------------- MODULE Spec2Model ----------------------------
(***************************************************************************)
(* Dateiexperte: the sort engine (file_sorter.py, FileSorter), its         *)
(* configuration model (config_models.py) and the monolithic sort thread   *)
(* of the GUI (main.py, FileSorterApp.sort_files).                         *)
(*                                                                         *)
(* Text is a sequence of one-character strings, so that splitext, lower(), *)
(* lstrip('.'), startswith and the counter formatting are computed the way *)
(* the code computes them.  A path is a sequence of names; PathStr gives   *)
(* the character string os.path.abspath returns for it.                    *)
(***************************************************************************)
EXTENDS Integers, Sequences, FiniteSets, TLC

VARIABLES
    config,          \* SorterConfig: categories, default_category, excluded_*
    extension_map,   \* FileSorter.extension_map, built by the constructor
    fs,              \* the filesystem: normalised path -> "dir" or file content
    source_dir,      \* argument of discover_files / sort_files
    target_dir,      \* argument of discover_files / sort_files
    operation,       \* argument of sort_files: "copy", "move" or anything else
    pc,              \* position of the running call
    walk,            \* os.walk: directories still to be yielded (depth first)
    visited,         \* directories os.walk has listed so far
    all_files,       \* discover_files: the candidate list
    idx,             \* sort_files: the loop index i (0-based)
    cur,             \* sort_files: locals of the file at hand
    result,          \* SortResult
    log,             \* messages handed to the logging sink
    progress,        \* values handed to progress_callback, in call order
    faults,          \* filesystem failures injected so far
    entry,           \* the method the caller invoked
    has_callback,    \* whether sort_files was given a progress_callback
    fs0,             \* the filesystem when the call started
    window_exists,   \* FileSorterApp: master.winfo_exists()
    start_button,    \* FileSorterApp: state of the start button
    progress_bar,    \* FileSorterApp: value and maximum of the progress bar
    after_queue,     \* FileSorterApp: callbacks scheduled with master.after
    ret,             \* the value the finished call returned
    edited_config    \* CategoryEditor: the copy of the configuration it edits

\* the widgets of the application window, and what its settings editor holds
app == <<window_exists, start_button, progress_bar, after_queue, edited_config>>

vars == <<config, extension_map, fs, source_dir, target_dir, operation, pc,
          walk, visited, all_files, idx, cur, result, log, progress, faults,
          entry, has_callback, fs0, window_exists, start_button, progress_bar,
          after_queue, ret, edited_config>>

---------------------------------------------------------------------------
(* Bounds of the model. *)

\* most source files present in a sort run
MaxFiles == 3
\* most files present in a tree that is only walked
MaxTreeFiles == 3
\* most pre-existing collisions name.ext, name(1).ext, ... under target
MaxPre == 2
\* most filesystem failures injected into one run
MaxFaults == 1
\* most source files present when the application's sort thread runs
MaxAppFiles == 2

\* sort runs started from one window
MaxRuns == 2

---------------------------------------------------------------------------
(* Text. *)

Upper == <<"A","B","C","D","E","F","G","H","I","J","K","L","M",
           "N","O","P","Q","R","S","T","U","V","W","X","Y","Z">>
LowerLetters == <<"a","b","c","d","e","f","g","h","i","j","k","l","m",
                  "n","o","p","q","r","s","t","u","v","w","x","y","z">>
DigitChars == <<"0","1","2","3","4","5","6","7","8","9">>

\* str.lower() of one character
LowerChar(c) ==
    IF \E k \in 1..Len(Upper) : Upper[k] = c
    THEN LowerLetters[CHOOSE k \in 1..Len(Upper) : Upper[k] = c]
    ELSE c

\* str.lower()
Lower(s) == [k \in 1..Len(s) |-> LowerChar(s[k])]

\* str.startswith
StartsWith(s, prefix) ==
    /\ Len(prefix) <= Len(s)
    /\ \A k \in 1..Len(prefix) : s[k] = prefix[k]

\* str.lstrip('.')
RECURSIVE LStripDot(_)
LStripDot(s) ==
    IF s # <<>> /\ Head(s) = "." THEN LStripDot(Tail(s)) ELSE s

\* str(counter) inside the f-string
RECURSIVE Digits(_)
Digits(n) ==
    IF n < 10 THEN <<DigitChars[n + 1]>>
    ELSE Digits(n \div 10) \o <<DigitChars[(n % 10) + 1]>>

\* os.path.splitext of a file name (no separator in it): the extension starts
\* at the last dot, unless only dots precede that dot.
SplitExt(name) ==
    LET dots == {k \in 1..Len(name) : name[k] = "."} IN
    IF dots = {} THEN <<name, <<>>>>
    ELSE LET dotIndex == CHOOSE k \in dots : \A j \in dots : j <= k IN
         IF \E j \in 1..(dotIndex - 1) : name[j] # "."
         THEN <<SubSeq(name, 1, dotIndex - 1), SubSeq(name, dotIndex, Len(name))>>
         ELSE <<name, <<>>>>

---------------------------------------------------------------------------
(* Paths. *)

Dot == <<".">>
DotDot == <<".", ".">>

\* os.path.normpath of an absolute path, component by component
RECURSIVE NormFrom(_, _)
NormFrom(done, rest) ==
    IF rest = <<>> THEN done
    ELSE LET c == Head(rest) IN
         IF c = <<>> \/ c = Dot THEN NormFrom(done, Tail(rest))
         ELSE IF c = DotDot
              THEN NormFrom(IF done = <<>> THEN <<>> ELSE SubSeq(done, 1, Len(done) - 1),
                            Tail(rest))
              ELSE NormFrom(Append(done, c), Tail(rest))

Norm(p) == NormFrom(<<>>, p)

\* the character string of a normalised absolute path: "/a/b"
RECURSIVE PathStr(_)
PathStr(p) ==
    IF p = <<>> THEN <<>> ELSE <<"/">> \o Head(p) \o PathStr(Tail(p))

\* os.path.abspath, as a character string
AbsPath(p) == IF Norm(p) = <<>> THEN <<"/">> ELSE PathStr(Norm(p))

\* os.path.basename
BaseName(p) == p[Len(p)]

\* os.path.dirname
DirName(p) == SubSeq(p, 1, Len(p) - 1)

\* os.path.join
Join(p, q) == p \o q

IsPrefix(p, q) == Len(p) <= Len(q) /\ SubSeq(q, 1, Len(p)) = p

---------------------------------------------------------------------------
(* Names used by the inputs. *)

src == <<"s","r","c">>
dst == <<"d","s","t">>
out == <<"o","u","t">>
sub == <<"s","u","b">>
tmp == <<"t","m","p">>
TmpCap == <<"T","m","p">>
Pic == <<"P","i","c">>
Doc == <<"D","o","c">>
jpg == <<".","j","p","g">>
txt == <<".","t","x","t">>
logx == <<".","l","o","g">>
a_jpg == <<"a",".","j","p","g">>
a_JPG == <<"a",".","J","P","G">>
b_log == <<"b",".","l","o","g">>
c_txt == <<"c",".","t","x","t">>
note == <<"n","o","t","e">>
dotenv == <<".","e","n","v">>
a_dot == <<"a",".">>

\* SorterConfig.default_category's default, and the validators' sentinel
Unsortiert == <<"_","U","n","s","o","r","t","i","e","r","t">>

\* Python's None, as returned by categorize_file for an excluded file
NoneValue == <<"<None>">>

---------------------------------------------------------------------------
(* Configuration model. *)

\* SorterConfig(): the dataclass defaults
EmptyConfig ==
    [categories |-> <<>>, default_category |-> Unsortiert,
     excluded_extensions |-> {}, excluded_folders |-> {}]

\* one category's pass of build_extension_map: the category's dotted
\* extensions, lower-cased, overwrite what the map held for them
MapExtensions(m, category, extensions) ==
    LET dotted == {k \in 1..Len(extensions) : StartsWith(extensions[k], <<".">>)} IN
    [e \in {Lower(extensions[k]) : k \in dotted} |-> category] @@ m

\* a builder that keeps the first category declaring an extension
RECURSIVE BuildFromKeepingFirst(_, _)
BuildFromKeepingFirst(m, categories) ==
    IF categories = <<>> THEN m
    ELSE BuildFromKeepingFirst(
             m @@ MapExtensions(<<>>, Head(categories).name, Head(categories).exts),
             Tail(categories))

\* SorterConfig.build_extension_map: categories in stored order, last wins
RECURSIVE BuildFrom(_, _)
BuildFrom(m, categories) ==
    IF categories = <<>> THEN m
    ELSE BuildFrom(MapExtensions(m, Head(categories).name, Head(categories).exts),
                   Tail(categories))

build_extension_map(c) == BuildFrom(<<>>, c.categories)

---------------------------------------------------------------------------
(* FileSorter.categorize_file *)

\* extension_lower of a path
ExtensionLower(file_path) == Lower(SplitExt(BaseName(file_path))[2])

\* self.extension_map.get(extension_lower, self.config.default_category)
ResolveCategory(c, m, extension_lower) ==
    IF extension_lower \in DOMAIN m THEN m[extension_lower] ELSE c.default_category

\* a layout that forgets the default bucket: a type folder for every extension
TargetLayoutAlwaysTyped(c, category_name, extension_lower) ==
    IF extension_lower # <<>> /\ LStripDot(extension_lower) # <<>>
    THEN <<category_name, Join(<<category_name>>, <<LStripDot(extension_lower)>>)>>
    ELSE <<category_name, <<category_name>>>>

\* the "Build target path" part: <<category_name, relative_path>>
TargetLayout(c, category_name, extension_lower) ==
    IF category_name # c.default_category /\ extension_lower # <<>>
    THEN LET type_folder == LStripDot(extension_lower) IN
         IF type_folder # <<>>
         THEN <<category_name, Join(<<category_name>>, <<type_folder>>)>>
         ELSE <<category_name, <<category_name>>>>
    ELSE <<category_name, <<category_name>>>>

\* a categorisation that looks the extension up first and excludes only
\* extensions no category declares
categorize_file_map_first(c, m, file_path) ==
    LET extension_lower == ExtensionLower(file_path) IN
    IF extension_lower \in DOMAIN m
    THEN TargetLayout(c, m[extension_lower], extension_lower)
    ELSE IF extension_lower \in c.excluded_extensions
         THEN <<NoneValue, NoneValue>>
         ELSE TargetLayout(c, c.default_category, extension_lower)

categorize_file(c, m, file_path) ==
    LET extension_lower == ExtensionLower(file_path) IN
    IF extension_lower \in c.excluded_extensions
    THEN <<NoneValue, NoneValue>>
    ELSE TargetLayout(c, ResolveCategory(c, m, extension_lower), extension_lower)

---------------------------------------------------------------------------
(* The filesystem: a function from normalised absolute paths to nodes, a    *)
(* directory or a file with its content.                                    *)

DirNode == [kind |-> "dir", data |-> <<>>]

FileNode(data) == [kind |-> "file", data |-> data]

\* the root directory always exists; the empty string names nothing
Exists(f, p) == p # <<>> /\ (Norm(p) = <<>> \/ Norm(p) \in DOMAIN f)

IsDir(f, p) == Exists(f, p) /\ (Norm(p) = <<>> \/ f[Norm(p)].kind = "dir")

IsFile(f, p) == Exists(f, p) /\ Norm(p) # <<>> /\ f[Norm(p)].kind = "file"

\* the names os.scandir lists in directory d
Entries(f, d) ==
    {BaseName(p) : p \in {q \in DOMAIN f : Len(q) = Len(Norm(d)) + 1
                                           /\ IsPrefix(Norm(d), q)}}

Prefixes(p) == {SubSeq(p, 1, k) : k \in 1..Len(p)}

\* os.makedirs(p, exist_ok=True) raises when a component is a file
CanMakeDirs(f, p) == \A q \in Prefixes(Norm(p)) : ~IsFile(f, q)

MakeDirs(f, p) ==
    [q \in DOMAIN f \cup Prefixes(Norm(p)) |-> IF q \in DOMAIN f THEN f[q] ELSE DirNode]

\* a file written at path p with the given content (an existing one is replaced)
WriteFile(f, p, data) ==
    [q \in DOMAIN f \cup {Norm(p)} |-> IF q = Norm(p) THEN FileNode(data) ELSE f[q]]

RemoveFile(f, p) == [q \in DOMAIN f \ {Norm(p)} |-> f[q]]

\* shutil.copy2 and shutil.move put the file inside dst when dst is a directory
RealDst(f, source_path, dest) ==
    IF IsDir(f, dest) THEN Join(dest, <<BaseName(source_path)>>) ELSE dest

\* the files (not directories) at or below directory d
FilesUnder(f, d) == {p \in DOMAIN f : f[p].kind = "file" /\ IsPrefix(Norm(d), p)}

\* all sequences listing the set S once each
Orders(S) ==
    {s \in [1..Cardinality(S) -> S] : \A i, j \in 1..Cardinality(S) : s[i] = s[j] => i = j}

---------------------------------------------------------------------------
(* FileSorter.discover_files *)

LogEntry(kind, text, n) == [kind |-> kind, text |-> text, n |-> n]

\* a filter that compares the names as they are spelled
KeptDirsCaseSensitive(c, dirs) == {d \in dirs : d \notin c.excluded_folders}

\* dirs[:] = [d for d in dirs if d.lower() not in self.config.excluded_folders]
KeptDirs(c, dirs) == {d \in dirs : Lower(d) \notin c.excluded_folders}

\* a test that skips the target directory itself only
IsTargetItself(root, target) == AbsPath(root) = AbsPath(target)

\* root_abs.startswith(target_abs)
InsideTarget(root, target) == StartsWith(AbsPath(root), AbsPath(target))

\* the call of discover_files: log, and os.walk(source_dir) starts at the top
\* (a top that cannot be listed yields nothing)
DiscoverStart ==
    /\ pc = "discover"
    /\ log' = Append(log, LogEntry("search", <<>>, 0))
    /\ walk' = IF IsDir(fs, source_dir) THEN <<source_dir>> ELSE <<>>
    /\ visited' = {}
    /\ all_files' = <<>>
    /\ pc' = "walk"
    /\ UNCHANGED <<config, extension_map, fs, source_dir, target_dir, operation,
                   idx, cur, result, progress, faults, entry, has_callback, fs0, ret, app>>

\* one iteration of the for loop over os.walk: the next directory is listed
\* (in the order the filesystem gives), its subdirectories filtered, and its
\* files added unless the directory is inside the target tree
WalkStep ==
    /\ pc = "walk"
    /\ walk # <<>>
    /\ LET root == Head(walk)
           names == Entries(fs, root)
           dirs == {d \in names : IsDir(fs, Join(root, <<d>>))}
           files == names \ dirs
           kept == KeptDirs(config, dirs)
       IN \E ds \in Orders(kept), fl \in Orders(files) :
            /\ walk' = [k \in 1..Len(ds) |-> Join(root, <<ds[k]>>)] \o Tail(walk)
            /\ visited' = visited \cup {Norm(root)}
            /\ all_files' =
                 IF InsideTarget(root, target_dir) THEN all_files
                 ELSE all_files \o [k \in 1..Len(fl) |-> Join(root, <<fl[k]>>)]
    /\ UNCHANGED <<config, extension_map, fs, source_dir, target_dir, operation,
                   pc, idx, cur, result, log, progress, faults, entry,
                   has_callback, fs0, ret, app>>

\* os.walk is exhausted: log the count and return the list
DiscoverReturn ==
    /\ pc = "walk"
    /\ walk = <<>>
    /\ log' = Append(log, LogEntry("found", <<>>, Len(all_files)))
    /\ pc' = IF entry = "discover_files" THEN "done" ELSE "found"
    /\ UNCHANGED <<config, extension_map, fs, source_dir, target_dir, operation,
                   walk, visited, all_files, idx, cur, result, progress, faults,
                   entry, has_callback, fs0, ret, app>>

---------------------------------------------------------------------------
(* FileSorter.get_unique_target_path *)

\* f"{name}({counter}){ext}"
CounterName(filename, counter) ==
    SplitExt(filename)[1] \o <<"(">> \o Digits(counter) \o <<")">> \o SplitExt(filename)[2]

NoCur ==
    [filename |-> <<>>, category |-> NoneValue, relative_path |-> NoneValue,
     category_dir |-> <<>>, target_path |-> <<>>, counter |-> 0]

\* get_unique_target_path is entered: the first candidate is dir/filename
UniqueStart ==
    /\ pc = "unique_call"
    /\ cur' = [cur EXCEPT !.target_path = Join(cur.category_dir, <<cur.filename>>),
                          !.counter = 1]
    /\ pc' = "unique"
    /\ UNCHANGED <<config, extension_map, fs, source_dir, target_dir, operation,
                   walk, visited, all_files, idx, result, log, progress, faults,
                   entry, has_callback, fs0, ret, app>>

\* a probe that finds every path free
PathNeverTaken(f, target_path) == FALSE

\* a probe that takes only regular files for taken (os.path.isfile)
PathTakenByFile(f, target_path) == IsFile(f, target_path)

\* os.path.exists(target_path), both at line 99 and in the while condition
PathTaken(f, target_path) == Exists(f, target_path)

\* one iteration of the while loop: the candidate exists, try the next counter
ProbeStep ==
    /\ pc = "unique"
    /\ PathTaken(fs, cur.target_path)
    /\ cur' = [cur EXCEPT
                 !.target_path = Join(cur.category_dir,
                                      <<CounterName(cur.filename, cur.counter)>>),
                 !.counter = cur.counter + 1]
    /\ UNCHANGED <<config, extension_map, fs, source_dir, target_dir, operation,
                   pc, walk, visited, all_files, idx, result, log, progress,
                   faults, entry, has_callback, fs0, ret, app>>

\* the candidate is free: get_unique_target_path returns it; sort_files then
\* logs a rename notice when the name differs and builds the FileOperation
UniqueReturn ==
    /\ pc = "unique"
    /\ ~PathTaken(fs, cur.target_path)
    /\ IF entry = "sort_files"
       THEN /\ pc' = "process"
            /\ log' = IF BaseName(cur.target_path) # cur.filename
                      THEN Append(log, LogEntry("rename", BaseName(cur.target_path), 0))
                      ELSE log
       ELSE /\ pc' = "done"
            /\ log' = log
    /\ UNCHANGED <<config, extension_map, fs, source_dir, target_dir, operation,
                   walk, visited, all_files, idx, cur, result, progress, faults,
                   entry, has_callback, fs0, ret, app>>

---------------------------------------------------------------------------
(* FileSorter.process_file *)

FaultKinds == {"mkdir", "copy", "partial", "gone"}

\* the content of a file whose copy was interrupted
PartialData == <<<<"partial">>>>

\* the filesystem after a failing process_file: makedirs raised (nothing
\* changed), the copy or move raised before writing (the directories exist),
\* it raised part-way (a partial target file is left, the source stays), or
\* the source had vanished by the time it was opened
AfterFault(f, kind, source_path, target_path) ==
    CASE kind = "mkdir" -> f
      [] kind = "copy" -> MakeDirs(f, DirName(target_path))
      [] kind = "partial" ->
            WriteFile(MakeDirs(f, DirName(target_path)), target_path, PartialData)
      [] kind = "gone" -> RemoveFile(MakeDirs(f, DirName(target_path)), source_path)

\* whether process_file succeeds when the filesystem itself does not fail
CanProcess(f, op, source_path, target_path) ==
    /\ CanMakeDirs(f, DirName(target_path))
    /\ op \in {"copy", "move"}
    /\ IsFile(f, source_path)

\* shutil.copy2 / shutil.move after os.makedirs
Processed(f, op, source_path, target_path) ==
    LET g == MakeDirs(f, DirName(target_path))
        d == RealDst(g, source_path, target_path)
        h == WriteFile(g, d, f[Norm(source_path)].data)
    IN IF op = "move" THEN RemoveFile(h, source_path) ELSE h

\* the filesystem after a process_file that raises by itself: a component of
\* the directory is a file (makedirs raises), or the directories are made and
\* the operation raises (unknown operation type, source missing)
Refused(f, target_path) ==
    IF CanMakeDirs(f, DirName(target_path))
    THEN MakeDirs(f, DirName(target_path)) ELSE f

---------------------------------------------------------------------------
(* FileSorter.sort_files *)

ZeroResult == [processed |-> 0, skipped |-> 0, errors |-> 0, total |-> 0]

\* a report of the index itself
ProgressValueIndex(i) == i

\* the value handed to progress_callback for loop index i
ProgressValue(i) == i + 1

\* "if progress_callback: progress_callback(i + 1)"
Report(p, i) == IF has_callback THEN Append(p, ProgressValue(i)) ELSE p

\* sort_files is called: result = SortResult(), then discover_files
SortFilesStart ==
    /\ pc = "idle"
    /\ entry = "sort_files"
    /\ result' = ZeroResult
    /\ pc' = "discover"
    /\ UNCHANGED <<config, extension_map, fs, source_dir, target_dir, operation,
                   walk, visited, all_files, idx, cur, log, progress, faults,
                   entry, has_callback, fs0, ret, app>>

\* a sort that prepares the target directory before it looks at the count
SortFilesBeginMakingTarget ==
    /\ pc = "found"
    /\ result' = [result EXCEPT !.total = Len(all_files)]
    /\ fs' = IF CanMakeDirs(fs, target_dir) THEN MakeDirs(fs, target_dir) ELSE fs
    /\ IF Len(all_files) = 0
       THEN /\ log' = Append(log, LogEntry("nothing", <<>>, 0))
            /\ pc' = "done"
       ELSE /\ log' = log
            /\ pc' = "loop"
    /\ idx' = 0
    /\ UNCHANGED <<config, extension_map, source_dir, target_dir, operation,
                   walk, visited, all_files, cur, progress, faults, entry,
                   has_callback, fs0, ret, app>>

\* discover_files has returned: total is set; nothing found ends the run
SortFilesBegin ==
    /\ pc = "found"
    /\ result' = [result EXCEPT !.total = Len(all_files)]
    /\ IF Len(all_files) = 0
       THEN /\ log' = Append(log, LogEntry("nothing", <<>>, 0))
            /\ pc' = "done"
       ELSE /\ log' = log
            /\ pc' = "loop"
    /\ idx' = 0
    /\ UNCHANGED <<config, extension_map, fs, source_dir, target_dir, operation,
                   walk, visited, all_files, cur, progress, faults, entry,
                   has_callback, fs0, ret, app>>

\* a loop iteration whose file categorize_file reports excluded: skipped is
\* counted and progress reported
SkipExcluded ==
    /\ pc = "loop"
    /\ idx < Len(all_files)
    /\ categorize_file(config, extension_map, all_files[idx + 1])[1] = NoneValue
    /\ result' = [result EXCEPT !.skipped = result.skipped + 1]
    /\ progress' = Report(progress, idx)
    /\ idx' = idx + 1
    /\ UNCHANGED <<config, extension_map, fs, source_dir, target_dir, operation,
                   pc, walk, visited, all_files, cur, log, faults, entry,
                   has_callback, fs0, ret, app>>

\* a loop iteration whose file has a category: the category directory is
\* joined and get_unique_target_path is called
BeginUnique ==
    /\ pc = "loop"
    /\ idx < Len(all_files)
    /\ LET source_path == all_files[idx + 1]
           cat == categorize_file(config, extension_map, source_path)
       IN /\ cat[1] # NoneValue
          /\ cur' = [NoCur EXCEPT !.filename = BaseName(source_path),
                                  !.category = cat[1],
                                  !.relative_path = cat[2],
                                  !.category_dir = Join(target_dir, cat[2])]
    /\ pc' = "unique_call"
    /\ UNCHANGED <<config, extension_map, fs, source_dir, target_dir, operation,
                   walk, visited, all_files, idx, result, log, progress, faults,
                   entry, has_callback, fs0, ret, app>>

\* a process_file that lets the failure escape: the run ends at the first one
ProcessFileAborting ==
    /\ pc = "process"
    /\ LET source_path == all_files[idx + 1] IN
       \/ /\ CanProcess(fs, operation, source_path, cur.target_path)
          /\ fs' = Processed(fs, operation, source_path, cur.target_path)
          /\ result' = [result EXCEPT !.processed = result.processed + 1]
          /\ progress' = Report(progress, idx)
          /\ idx' = idx + 1
          /\ pc' = "loop"
          /\ UNCHANGED <<log, faults>>
       \/ /\ ~CanProcess(fs, operation, source_path, cur.target_path)
          /\ fs' = Refused(fs, cur.target_path)
          /\ log' = Append(log, LogEntry("error", cur.filename, 0))
          /\ pc' = "done"
          /\ UNCHANGED <<result, progress, idx, faults>>
       \/ /\ CanProcess(fs, operation, source_path, cur.target_path)
          /\ faults < MaxFaults
          /\ \E kind \in FaultKinds :
               /\ kind = "mkdir" => ~IsDir(fs, DirName(cur.target_path))
               /\ fs' = AfterFault(fs, kind, source_path, cur.target_path)
          /\ faults' = faults + 1
          /\ log' = Append(log, LogEntry("error", cur.filename, 0))
          /\ pc' = "done"
          /\ UNCHANGED <<result, progress, idx>>
    /\ cur' = NoCur
    /\ UNCHANGED <<config, extension_map, source_dir, target_dir, operation,
                   walk, visited, all_files, entry, has_callback, fs0, ret, app>>

\* process_file on the FileOperation, the count that follows and the progress
\* report: the operation succeeds when nothing prevents it and no failure of
\* the filesystem is injected
ProcessFile ==
    /\ pc = "process"
    /\ LET source_path == all_files[idx + 1] IN
       \/ /\ CanProcess(fs, operation, source_path, cur.target_path)
          /\ fs' = Processed(fs, operation, source_path, cur.target_path)
          /\ result' = [result EXCEPT !.processed = result.processed + 1]
          /\ UNCHANGED <<log, faults>>
       \/ /\ ~CanProcess(fs, operation, source_path, cur.target_path)
          /\ fs' = Refused(fs, cur.target_path)
          /\ result' = [result EXCEPT !.errors = result.errors + 1]
          /\ log' = Append(log, LogEntry("error", cur.filename, 0))
          /\ UNCHANGED faults
       \/ /\ CanProcess(fs, operation, source_path, cur.target_path)
          /\ faults < MaxFaults
          /\ \E kind \in FaultKinds :
               /\ kind = "mkdir" => ~IsDir(fs, DirName(cur.target_path))
               /\ fs' = AfterFault(fs, kind, source_path, cur.target_path)
          /\ faults' = faults + 1
          /\ result' = [result EXCEPT !.errors = result.errors + 1]
          /\ log' = Append(log, LogEntry("error", cur.filename, 0))
    /\ progress' = Report(progress, idx)
    /\ idx' = idx + 1
    /\ cur' = NoCur
    /\ pc' = "loop"
    /\ UNCHANGED <<config, extension_map, source_dir, target_dir, operation,
                   walk, visited, all_files, entry, has_callback, fs0, ret, app>>

\* the loop is exhausted: sort_files returns result
SortFilesReturn ==
    /\ pc = "loop"
    /\ idx = Len(all_files)
    /\ pc' = "done"
    /\ UNCHANGED <<config, extension_map, fs, source_dir, target_dir, operation,
                   walk, visited, all_files, idx, cur, result, log, progress,
                   faults, entry, has_callback, fs0, ret, app>>

---------------------------------------------------------------------------
(* FileSorter.validate_directories *)

\* the root directory, written "/."
Root == <<Dot>>

SourceInvalid == <<"Quellordner ungueltig">>
TargetMissing == <<"Zielordner nicht angegeben">>
TargetInsideSource == <<"Zielordner innerhalb des Quellordners">>

\* the value validate_directories returns: an error message or None.  The
\* paths are absolute, so that os.path.abspath has no reason to raise.
validate_directories(f, source, target) ==
    IF source = <<>> \/ ~IsDir(f, source) THEN SourceInvalid
    ELSE IF target = <<>> THEN TargetMissing
    ELSE IF \/ AbsPath(source) = AbsPath(target)
            \/ StartsWith(AbsPath(target), AbsPath(source) \o <<"/">>)
         THEN TargetInsideSource
         ELSE NoneValue

\* a call of validate_directories
ValidateDirectories ==
    /\ pc = "idle"
    /\ entry = "validate_directories"
    /\ ret' = validate_directories(fs, source_dir, target_dir)
    /\ pc' = "done"
    /\ UNCHANGED <<config, extension_map, fs, source_dir, target_dir, operation,
                   walk, visited, all_files, idx, cur, result, log, progress,
                   faults, entry, has_callback, fs0, app>>

---------------------------------------------------------------------------
(* categorize_file called on its own *)

CallCategorize(file_path) ==
    /\ pc = "idle"
    /\ entry = "categorize_file"
    /\ LET cat == categorize_file(config, extension_map, file_path) IN
       cur' = [NoCur EXCEPT !.filename = BaseName(file_path),
                            !.category = cat[1],
                            !.relative_path = cat[2]]
    /\ pc' = "done"
    /\ UNCHANGED <<config, extension_map, fs, source_dir, target_dir, operation,
                   walk, visited, all_files, idx, result, log, progress, faults,
                   entry, has_callback, fs0, ret, app>>

---------------------------------------------------------------------------
(* build_extension_map called on its own, twice: the caller keeps the      *)
(* earlier result in extension_map, ret is what the call returns.           *)

BuildExtensionMap ==
    /\ entry = "build_extension_map"
    /\ pc \in {"idle", "built"}
    /\ extension_map' = IF pc = "idle" THEN extension_map ELSE ret[2]
    /\ ret' = <<"dict", build_extension_map(config)>>
    /\ pc' = IF pc = "idle" THEN "built" ELSE "rebuilt"
    /\ UNCHANGED <<config, fs, source_dir, target_dir, operation, walk, visited,
                   all_files, idx, cur, result, log, progress, faults, entry,
                   has_callback, fs0, app>>

---------------------------------------------------------------------------
(* FileSorterApp (main.py): the window, the start button, the sort thread   *)
(* started by start_sorting_thread and the callbacks it schedules on the    *)
(* main loop with master.after.  The application keeps the loaded           *)
(* configuration in its own fields: config and extension_map stand for      *)
(* excluded_extensions, excluded_folders, default_category_name and         *)
(* extension_to_category.                                                   *)

\* the empty entry field of the target directory
NoPath == <<>>

\* the default target offered when the field is empty
Sorted_Files == <<"S","o","r","t","e","d","_","F","i","l","e","s">>

Callback(fn, args) == [fn |-> fn, args |-> args]

\* self.log: the message is shown only while the window exists
AppLog(l, e) == IF window_exists THEN Append(l, e) ELSE l

\* source_abs == target_abs or target_abs.startswith(source_abs + os.path.sep)
TargetInSource(source, target) ==
    \/ AbsPath(source) = AbsPath(target)
    \/ StartsWith(AbsPath(target), AbsPath(source) \o <<"/">>)

\* start_sorting_thread: the inputs are validated, the user is asked about a
\* missing target, and the sort thread is started with the button disabled;
\* every refusal returns without starting a thread
StartSortingThread ==
    /\ pc = "app_idle"
    /\ window_exists
    /\ start_button = "normal"
    /\ \E use_default, create \in BOOLEAN :
       LET target == IF target_dir = NoPath
                     THEN Join(source_dir, <<Sorted_Files>>) ELSE target_dir
           refused_early ==
               \/ ~IsDir(fs, source_dir)
               \/ target_dir = NoPath /\ ~use_default
               \/ ~Exists(fs, target) /\ (~create \/ ~CanMakeDirs(fs, target))
               \/ Exists(fs, target) /\ ~IsDir(fs, target)
           made == IF ~Exists(fs, target) THEN MakeDirs(fs, target) ELSE fs
       IN IF refused_early
          THEN /\ pc' = "app_refused"
               /\ target_dir' = IF IsDir(fs, source_dir) /\ use_default
                                THEN target ELSE target_dir
               /\ UNCHANGED <<fs, log, start_button, progress_bar>>
          ELSE /\ fs' = made
               /\ target_dir' = target
               /\ log' = IF made # fs
                         THEN AppLog(log, LogEntry("target_created", <<>>, 0))
                         ELSE log
               /\ IF TargetInSource(source_dir, target)
                  THEN /\ pc' = "app_refused"
                       /\ UNCHANGED <<start_button, progress_bar>>
                  ELSE /\ pc' = "app_thread"
                       /\ start_button' = "disabled"
                       /\ progress_bar' = [progress_bar EXCEPT !.value = 0]
    /\ UNCHANGED <<edited_config, config, extension_map, source_dir, operation, walk, visited,
                   all_files, idx, cur, result, progress, faults, entry,
                   has_callback, fs0, ret, window_exists, after_queue>>

\* the sort thread begins: the counters are zero, os.walk starts at the source
AppSortStart ==
    /\ pc = "app_thread"
    /\ result' = ZeroResult
    /\ log' = AppLog(log, LogEntry("search", <<>>, 0))
    /\ walk' = IF IsDir(fs, source_dir) THEN <<source_dir>> ELSE <<>>
    /\ visited' = {}
    /\ all_files' = <<>>
    /\ pc' = "app_walk"
    /\ UNCHANGED <<config, extension_map, fs, source_dir, target_dir, operation,
                   idx, cur, progress, faults, entry, has_callback, fs0, ret, app>>

\* one iteration of the thread's os.walk loop: excluded subdirectories are
\* removed from dirs, and the files are taken unless the directory is inside
\* the target tree
AppWalkStep ==
    /\ pc = "app_walk"
    /\ walk # <<>>
    /\ LET root == Head(walk)
           names == Entries(fs, root)
           dirs == {d \in names : IsDir(fs, Join(root, <<d>>))}
           files == names \ dirs
           kept == {d \in dirs : Lower(d) \notin config.excluded_folders}
       IN \E ds \in Orders(kept), fl \in Orders(files) :
            /\ walk' = [k \in 1..Len(ds) |-> Join(root, <<ds[k]>>)] \o Tail(walk)
            /\ visited' = visited \cup {Norm(root)}
            /\ all_files' =
                 IF StartsWith(AbsPath(root), AbsPath(target_dir)) THEN all_files
                 ELSE all_files \o [k \in 1..Len(fl) |-> Join(root, <<fl[k]>>)]
    /\ UNCHANGED <<config, extension_map, fs, source_dir, target_dir, operation,
                   pc, idx, cur, result, log, progress, faults, entry,
                   has_callback, fs0, ret, app>>

\* callbacks handed to master.after are run by the main loop of the window;
\* once the window is destroyed none is run any more
Scheduled(q, callbacks) == IF window_exists THEN q \o callbacks ELSE q

\* os.walk is exhausted.  Nothing found: the completion message and the
\* re-enabling of the button are scheduled and the thread returns.  Otherwise
\* the maximum of the progress bar is set, which raises without a window.
AppFound ==
    /\ pc = "app_walk"
    /\ walk = <<>>
    /\ result' = [result EXCEPT !.total = Len(all_files)]
    /\ idx' = 0
    /\ IF Len(all_files) = 0
       THEN /\ log' = AppLog(log, LogEntry("nothing", <<>>, 0))
            /\ after_queue' = Scheduled(after_queue,
                   <<Callback("show_completion_message", <<0, 0, 0>>),
                     Callback("enable_start_button", <<>>)>>)
            /\ pc' \in IF window_exists THEN {"app_done"} ELSE {"app_done", "app_failed"}
            /\ UNCHANGED progress_bar
       ELSE /\ log' = AppLog(log, LogEntry("found", <<>>, Len(all_files)))
            /\ after_queue' = after_queue
            /\ IF window_exists
               THEN /\ progress_bar' = [progress_bar EXCEPT !.maximum = Len(all_files)]
                    /\ pc' = "app_loop"
               ELSE /\ progress_bar' = progress_bar
                    /\ pc' = "app_failed"
    /\ UNCHANGED <<edited_config, config, extension_map, fs, source_dir, target_dir, operation,
                   walk, visited, all_files, cur, progress, faults, entry,
                   has_callback, fs0, ret, window_exists, start_button>>

\* "if not self.master.winfo_exists(): ...; return" at the head of the loop
\* body: without a window the check answers False or raises, and either way
\* the thread ends before it looks at the file
AppCancel ==
    /\ pc = "app_loop"
    /\ idx < Len(all_files)
    /\ ~window_exists
    /\ pc' \in {"app_cancelled", "app_failed"}
    /\ UNCHANGED <<config, extension_map, fs, source_dir, target_dir, operation,
                   walk, visited, all_files, idx, cur, result, log, progress,
                   faults, entry, has_callback, fs0, ret, app>>

\* a category directory without the folder for the file type
AppCategoryTargetDirFlat(c, m, target, file_extension_lower) ==
    Join(target, <<IF file_extension_lower \in DOMAIN m
                   THEN m[file_extension_lower] ELSE c.default_category>>)

\* category_target_dir of the loop body
AppCategoryTargetDir(c, m, target, file_extension_lower) ==
    LET category_name == IF file_extension_lower \in DOMAIN m
                         THEN m[file_extension_lower] ELSE c.default_category
    IN IF category_name # c.default_category /\ file_extension_lower # <<>>
       THEN LET type_subfolder_name == LStripDot(file_extension_lower) IN
            IF type_subfolder_name # <<>>
            THEN Join(target, <<category_name, type_subfolder_name>>)
            ELSE Join(target, <<category_name>>)
       ELSE Join(target, <<category_name>>)

\* "while os.path.exists(target_path)": the first free name
RECURSIVE AppProbe(_, _, _, _, _)
AppProbe(f, category_target_dir, filename, target_path, counter) ==
    IF Exists(f, target_path)
    THEN AppProbe(f, category_target_dir, filename,
                  Join(category_target_dir, <<CounterName(filename, counter)>>),
                  counter + 1)
    ELSE target_path

\* the same check while the window exists: the loop body goes on to the file
AppCheckWindow ==
    /\ pc = "app_loop"
    /\ idx < Len(all_files)
    /\ window_exists
    /\ pc' = "app_file"
    /\ UNCHANGED <<config, extension_map, fs, source_dir, target_dir, operation,
                   walk, visited, all_files, idx, cur, result, log, progress,
                   faults, entry, has_callback, fs0, ret, app>>

\* the loop body for one file after the window check, up to the count: an
\* excluded extension is skipped; otherwise the category directory is made,
\* a free name probed and the file copied or moved, and a failure of any of
\* these is logged and counted as an error
AppHandleFile ==
    /\ pc = "app_file"
    /\ LET source_path == all_files[idx + 1]
           filename == BaseName(source_path)
           file_extension_lower == Lower(SplitExt(filename)[2])
           category_target_dir ==
               AppCategoryTargetDir(config, extension_map, target_dir,
                                    file_extension_lower)
           made == MakeDirs(fs, category_target_dir)
           target_path == AppProbe(made, category_target_dir, filename,
                                   Join(category_target_dir, <<filename>>), 1)
           renamed == IF BaseName(target_path) # filename
                      THEN AppLog(log, LogEntry("rename", BaseName(target_path), 0))
                      ELSE log
           failed(l) == AppLog(l, LogEntry("error", filename, 0))
       IN IF file_extension_lower \in config.excluded_extensions
          THEN /\ result' = [result EXCEPT !.skipped = result.skipped + 1]
               /\ cur' = [NoCur EXCEPT !.filename = filename]
               /\ UNCHANGED <<fs, log, faults>>
          ELSE /\ cur' = [NoCur EXCEPT !.filename = filename,
                                       !.category_dir = category_target_dir,
                                       !.target_path =
                                           IF CanMakeDirs(fs, category_target_dir)
                                           THEN target_path ELSE <<>>]
               /\ \/ /\ CanMakeDirs(fs, category_target_dir)
                     /\ IsFile(fs, source_path)
                     /\ fs' = IF operation \in {"copy", "move"}
                              THEN Processed(made, operation, source_path, target_path)
                              ELSE made
                     /\ log' = renamed
                     /\ result' = [result EXCEPT !.processed = result.processed + 1]
                     /\ UNCHANGED faults
                  \/ /\ ~CanMakeDirs(fs, category_target_dir)
                     /\ fs' = fs
                     /\ log' = failed(log)
                     /\ result' = [result EXCEPT !.errors = result.errors + 1]
                     /\ UNCHANGED faults
                  \/ /\ CanMakeDirs(fs, category_target_dir)
                     /\ faults < MaxFaults
                     /\ \E kind \in FaultKinds :
                          /\ kind = "mkdir" => ~IsDir(fs, category_target_dir)
                          /\ fs' = AfterFault(fs, kind, source_path, target_path)
                          /\ log' = failed(IF kind = "mkdir" THEN log ELSE renamed)
                     /\ faults' = faults + 1
                     /\ result' = [result EXCEPT !.errors = result.errors + 1]
    /\ pc' = "app_after"
    /\ UNCHANGED <<config, extension_map, source_dir, target_dir, operation,
                   walk, visited, all_files, idx, progress, entry, has_callback,
                   fs0, ret, app>>

\* a progress report that leaves the skipped files out
AppProgressValueNoSkips(r) == r.processed + r.errors

\* processed_files_count + skipped_count + error_count
AppProgressValue(r) == r.processed + r.skipped + r.errors

\* "self.master.after(0, self.update_progress, ...)" after the file: with the
\* window the update is queued for the main loop; without it the call raises,
\* which ends the thread, or hands the update to a loop that will never run it
AppAfterProgress ==
    /\ pc = "app_after"
    /\ \/ /\ window_exists
          /\ after_queue' = Append(after_queue,
                 Callback("update_progress", <<AppProgressValue(result)>>))
          /\ progress' = Append(progress, AppProgressValue(result))
          /\ idx' = idx + 1
          /\ pc' = "app_loop"
       \/ /\ ~window_exists
          /\ progress' = Append(progress, AppProgressValue(result))
          /\ idx' = idx + 1
          /\ pc' = "app_loop"
          /\ UNCHANGED after_queue
       \/ /\ ~window_exists
          /\ pc' = "app_failed"
          /\ UNCHANGED <<after_queue, progress, idx>>
    /\ cur' = NoCur
    /\ UNCHANGED <<edited_config, config, extension_map, fs, source_dir, target_dir, operation,
                   walk, visited, all_files, result, log, faults, entry,
                   has_callback, fs0, ret, window_exists, start_button, progress_bar>>

\* a thread that ends without asking for the button to be enabled again
AppFinishWithoutEnable ==
    /\ pc = "app_loop"
    /\ idx = Len(all_files)
    /\ after_queue' = Scheduled(after_queue,
           <<Callback("show_completion_message",
                      <<result.processed, result.skipped, result.errors>>)>>)
    /\ pc' \in IF window_exists THEN {"app_done"} ELSE {"app_done", "app_failed"}
    /\ UNCHANGED <<edited_config, config, extension_map, fs, source_dir, target_dir, operation,
                   walk, visited, all_files, idx, cur, result, log, progress,
                   faults, entry, has_callback, fs0, ret, window_exists, start_button,
                   progress_bar>>

\* the loop is exhausted: the completion message and the re-enabling of the
\* button are scheduled, and the thread ends
AppFinish ==
    /\ pc = "app_loop"
    /\ idx = Len(all_files)
    /\ after_queue' = Scheduled(after_queue,
           <<Callback("show_completion_message",
                      <<result.processed, result.skipped, result.errors>>),
             Callback("enable_start_button", <<>>)>>)
    /\ pc' \in IF window_exists THEN {"app_done"} ELSE {"app_done", "app_failed"}
    /\ UNCHANGED <<edited_config, config, extension_map, fs, source_dir, target_dir, operation,
                   walk, visited, all_files, idx, cur, result, log, progress,
                   faults, entry, has_callback, fs0, ret, window_exists, start_button,
                   progress_bar>>

\* the positions of the sort thread between its start and its end
ThreadRunning == pc \in {"app_thread", "app_walk", "app_loop", "app_file", "app_after"}

\* an exception escapes the loop or the walk ("except Exception" of the
\* thread): the message and the error box are scheduled, then "finally"
\* schedules the re-enabling of the button; without a window the first
\* master.after raises inside the handler and nothing is scheduled
AppFatalError ==
    /\ ThreadRunning
    /\ pc # "app_thread"
    /\ faults < MaxFaults
    /\ faults' = faults + 1
    /\ after_queue' = Scheduled(after_queue,
           <<Callback("log", <<>>), Callback("showerror", <<>>),
             Callback("enable_start_button", <<>>)>>)
    /\ pc' = "app_failed"
    /\ cur' = NoCur
    /\ UNCHANGED <<edited_config, config, extension_map, fs, source_dir, target_dir, operation,
                   walk, visited, all_files, idx, result, log, progress, entry,
                   has_callback, fs0, ret, window_exists, start_button, progress_bar>>

\* open_category_editor, from the settings menu: the editor window has been
\* closed (whatever was saved is in the configuration file) and load_config
\* begins by resetting the fields the sort thread reads
OpenCategoryEditor ==
    /\ entry = "start_sorting_thread"
    /\ window_exists
    /\ entry' = "open_category_editor"
    /\ config' = EmptyConfig
    /\ extension_map' = <<>>
    /\ UNCHANGED <<fs, source_dir, target_dir, operation, pc, walk, visited,
                   all_files, idx, cur, result, log, progress, faults,
                   has_callback, fs0, ret, app>>

\* load_config goes on: the fields are assigned what the file now holds
ReloadConfig(loaded) ==
    /\ entry = "open_category_editor"
    /\ entry' = "start_sorting_thread"
    /\ config' = loaded
    /\ extension_map' = build_extension_map(loaded)
    /\ UNCHANGED <<fs, source_dir, target_dir, operation, pc, walk, visited,
                   all_files, idx, cur, result, log, progress, faults,
                   has_callback, fs0, ret, app>>

\* the number of sort threads started so far, one "search" entry each
RunsStarted == Cardinality({k \in 1..Len(log) : log[k].kind = "search"})

\* start_sorting_thread has returned, or the thread has ended: the window is
\* idle again and the button can be pressed once more
BackToIdle ==
    /\ entry = "start_sorting_thread"
    /\ pc \in {"app_refused", "app_done", "app_failed", "app_cancelled"}
    /\ RunsStarted < MaxRuns
    /\ pc' = "app_idle"
    /\ UNCHANGED <<config, extension_map, fs, source_dir, target_dir, operation,
                   walk, visited, all_files, idx, cur, result, log, progress,
                   faults, entry, has_callback, fs0, ret, app>>

\* the main loop runs the oldest scheduled callback: update_progress,
\* show_completion_message or enable_start_button
MainLoop ==
    /\ window_exists
    /\ after_queue # <<>>
    /\ LET callback == Head(after_queue) IN
       /\ progress_bar' =
            CASE callback.fn = "update_progress" ->
                     [progress_bar EXCEPT !.value = callback.args[1]]
              [] callback.fn = "show_completion_message" ->
                     [progress_bar EXCEPT !.value = 0]
              [] OTHER -> progress_bar
       /\ log' = CASE callback.fn = "show_completion_message" ->
                          Append(log, LogEntry("completed", <<>>, callback.args[1]))
                   [] callback.fn = "log" -> Append(log, LogEntry("fatal", <<>>, 0))
                   [] OTHER -> log
       /\ start_button' = IF callback.fn = "enable_start_button"
                          THEN "normal" ELSE start_button
    /\ after_queue' = Tail(after_queue)
    /\ UNCHANGED <<edited_config, config, extension_map, fs, source_dir, target_dir, operation,
                   pc, walk, visited, all_files, idx, cur, result, progress,
                   faults, entry, has_callback, fs0, ret, window_exists>>

\* the user closes the window: the start button and the progress bar are
\* destroyed with it, and the callbacks not yet run are never run
CloseWindow ==
    /\ entry \in {"start_sorting_thread", "sort_files"}
    /\ window_exists
    /\ window_exists' = FALSE
    /\ after_queue' = <<>>
    /\ start_button' = "destroyed"
    /\ progress_bar' = [value |-> 0, maximum |-> 0]
    /\ UNCHANGED <<edited_config, config, extension_map, fs, source_dir, target_dir, operation,
                   pc, walk, visited, all_files, idx, cur, result, log, progress,
                   faults, entry, has_callback, fs0, ret>>

---------------------------------------------------------------------------
(* Both implementations of the sort on the same inputs: once               *)
(* FileSorter.sort_files has returned, its counts, its progress values and  *)
(* the files it made under target are kept in ret, the filesystem is put    *)
(* back to what it was, and FileSorterApp.sort_files is run.                *)

AgainInApplication ==
    /\ entry = "sort_files"
    /\ pc = "done"
    /\ ret' = <<"SortResult",
                [result |-> result, progress |-> progress,
                 targets |-> FilesUnder(fs, target_dir) \ FilesUnder(fs0, target_dir)]>>
    /\ entry' = "app_sort_files"
    /\ pc' = "app_thread"
    /\ fs' = fs0
    /\ walk' = <<>>
    /\ visited' = {}
    /\ all_files' = <<>>
    /\ idx' = 0
    /\ cur' = NoCur
    /\ result' = ZeroResult
    /\ log' = <<>>
    /\ progress' = <<>>
    /\ UNCHANGED <<config, extension_map, source_dir, target_dir, operation,
                   faults, has_callback, fs0, app>>

---------------------------------------------------------------------------
(* Configuration documents (config_models.py).  A JSON value is a tagged    *)
(* pair: a string carries its characters, a list its items, an object its   *)
(* members (key and value, in document order), a number nothing.            *)

JStr(s) == <<"str", s>>
JList(items) == <<"list", items>>
JObj(members) == <<"obj", members>>
JNum == <<"num", <<>>>>

IsStr(v) == v[1] = "str"
IsList(v) == v[1] = "list"
IsDict(v) == v[1] = "obj"

\* dict.get(key, default)
Get(data, key, default) ==
    LET at == {k \in 1..Len(data[2]) : data[2][k][1] = key} IN
    IF at = {} THEN default ELSE data[2][CHOOSE k \in at : TRUE][2]

Kategorien == "Kategorien"
StandardKategorie == "StandardKategorie"
AusgeschlosseneEndungen == "AusgeschlosseneEndungen"
AusgeschlosseneOrdner == "AusgeschlosseneOrdner"

Whitespace == {" ", "\t", "\n"}

\* str.strip()
RECURSIVE LStrip(_)
LStrip(s) == IF s # <<>> /\ Head(s) \in Whitespace THEN LStrip(Tail(s)) ELSE s

RECURSIVE RStrip(_)
RStrip(s) ==
    IF s # <<>> /\ s[Len(s)] \in Whitespace THEN RStrip(SubSeq(s, 1, Len(s) - 1)) ELSE s

Strip(s) == RStrip(LStrip(s))

\* the characters of the inputs in code-point order, for sorted()
CodeOrder == <<" ", ".", "/">> \o DigitChars \o Upper \o <<"_">> \o LowerLetters

Rank(c) == CHOOSE k \in 1..Len(CodeOrder) : CodeOrder[k] = c

\* s < t for two str
RECURSIVE TextLess(_, _)
TextLess(s, t) ==
    IF t = <<>> THEN FALSE
    ELSE IF s = <<>> THEN TRUE
    ELSE IF Head(s) = Head(t) THEN TextLess(Tail(s), Tail(t))
    ELSE Rank(Head(s)) < Rank(Head(t))

\* sorted(list(S)) of a set of str
RECURSIVE SortedList(_)
SortedList(S) ==
    IF S = {} THEN <<>>
    ELSE LET least == CHOOSE x \in S : \A y \in S \ {x} : TextLess(x, y) IN
         <<least>> \o SortedList(S \ {least})

\* the test both extension validators apply to one list item
ValidExtension(ext) == IsStr(ext) /\ StartsWith(ext[2], <<".">>) /\ Len(ext[2]) > 1

\* the inner loop of validate_categories: valid_extensions, in list order
ValidExtensions(extensions) ==
    LET kept == SelectSeq(extensions, ValidExtension) IN
    [k \in 1..Len(kept) |-> Lower(kept[k][2])]

\* whether validate_categories keeps a member of categories.items()
KeptCategory(member) ==
    IsList(member[2]) /\ ValidExtensions(member[2][2]) # <<>>

\* the outer loop of validate_categories over categories.items()
ValidCategories(members) ==
    LET kept == SelectSeq(members, KeptCategory) IN
    [k \in 1..Len(kept) |->
        [name |-> kept[k][1], exts |-> ValidExtensions(kept[k][2][2])]]

\* ConfigValidator.validate_categories
validate_categories(categories) ==
    IF ~IsDict(categories) THEN <<>> ELSE ValidCategories(categories[2])

\* ConfigValidator.validate_extensions
validate_extensions(extensions) ==
    IF ~IsList(extensions) THEN {}
    ELSE {Lower(extensions[2][k][2]) :
            k \in {j \in 1..Len(extensions[2]) : ValidExtension(extensions[2][j])}}

\* the test validate_folders applies to one list item
ValidFolder(folder) == IsStr(folder) /\ Strip(folder[2]) # <<>>

\* ConfigValidator.validate_folders
validate_folders(folders) ==
    IF ~IsList(folders) THEN {}
    ELSE {Lower(Strip(folders[2][k][2])) :
            k \in {j \in 1..Len(folders[2]) : ValidFolder(folders[2][j])}}

\* the messages the validators and _validate_config_data hand to the logger
\* for one document
RECURSIVE ExtensionWarnings(_, _)
ExtensionWarnings(extensions, text) ==
    IF extensions = <<>> THEN <<>>
    ELSE (IF ValidExtension(Head(extensions)) THEN <<>> ELSE <<text>>)
         \o ExtensionWarnings(Tail(extensions), text)

RECURSIVE CategoryWarnings(_)
CategoryWarnings(members) ==
    IF members = <<>> THEN <<>>
    ELSE (IF IsList(Head(members)[2])
          THEN ExtensionWarnings(Head(members)[2][2], "Warnung: Ignoriere ungueltige Endung")
          ELSE <<"Warnung: Ungueltiges Format fuer Extensions">>)
         \o CategoryWarnings(Tail(members))

RECURSIVE FolderWarnings(_)
FolderWarnings(folders) ==
    IF folders = <<>> THEN <<>>
    ELSE (IF ValidFolder(Head(folders)) THEN <<>>
          ELSE <<"Warnung: Ignoriere ungueltigen Ordnerausschluss">>)
         \o FolderWarnings(Tail(folders))

\* whether _validate_config_data keeps the document's default category
KeepsDefault(default_category) ==
    IsStr(default_category) /\ Strip(default_category[2]) # <<>>

ValidationMessages(data) ==
    IF ~IsDict(data) THEN <<"Konfigformat ungueltig. Verwende Defaults.">>
    ELSE LET categories == Get(data, Kategorien, JObj(<<>>))
             extensions == Get(data, AusgeschlosseneEndungen, JList(<<>>))
             folders == Get(data, AusgeschlosseneOrdner, JList(<<>>))
         IN (IF IsDict(categories) THEN CategoryWarnings(categories[2])
             ELSE <<"FEHLER: 'Kategorien' kein Dictionary.">>)
            \o (IF KeepsDefault(Get(data, StandardKategorie, JStr(Unsortiert)))
                THEN <<>> ELSE <<"Warnung: StandardKategorie leer">>)
            \o (IF IsList(extensions)
                THEN ExtensionWarnings(extensions[2],
                                       "Warnung: Ignoriere ungueltige Ausschlusserweiterung")
                ELSE <<"Warnung: 'AusgeschlosseneEndungen' keine Liste.">>)
            \o (IF IsList(folders) THEN FolderWarnings(folders[2])
                ELSE <<"Warnung: 'AusgeschlosseneOrdner' keine Liste.">>)

\* ConfigManager._validate_config_data
validate_config_data(data) ==
    IF ~IsDict(data) THEN EmptyConfig
    ELSE LET default_category == Get(data, StandardKategorie, JStr(Unsortiert)) IN
         [categories |-> validate_categories(Get(data, Kategorien, JObj(<<>>))),
          default_category |->
              IF KeepsDefault(default_category) THEN default_category[2] ELSE Unsortiert,
          excluded_extensions |->
              validate_extensions(Get(data, AusgeschlosseneEndungen, JList(<<>>))),
          excluded_folders |->
              validate_folders(Get(data, AusgeschlosseneOrdner, JList(<<>>)))]

\* a list of str as a JSON list, and back
StrList(texts) == JList([k \in 1..Len(texts) |-> JStr(texts[k])])

Texts(list) == [k \in 1..Len(list[2]) |-> list[2][k][2]]

\* a to_dict that forgets the excluded folders
to_dict_without_folders(c) ==
    JObj(<<
        <<Kategorien,
          JObj([k \in 1..Len(c.categories) |->
                  <<c.categories[k].name, StrList(c.categories[k].exts)>>])>>,
        <<StandardKategorie, JStr(c.default_category)>>,
        <<AusgeschlosseneEndungen, StrList(SortedList(c.excluded_extensions))>> >>)

\* SorterConfig.to_dict
to_dict(c) ==
    JObj(<<
        <<Kategorien,
          JObj([k \in 1..Len(c.categories) |->
                  <<c.categories[k].name, StrList(c.categories[k].exts)>>])>>,
        <<StandardKategorie, JStr(c.default_category)>>,
        <<AusgeschlosseneEndungen, StrList(SortedList(c.excluded_extensions))>>,
        <<AusgeschlosseneOrdner, StrList(SortedList(c.excluded_folders))>> >>)

\* the documents whose values have the types SorterConfig's fields are
\* annotated with: from_dict stores them without looking at them
Typed(data) ==
    /\ IsDict(data)
    /\ LET categories == Get(data, Kategorien, JObj(<<>>)) IN
         /\ IsDict(categories)
         /\ \A k \in 1..Len(categories[2]) :
               /\ IsList(categories[2][k][2])
               /\ \A j \in 1..Len(categories[2][k][2][2]) :
                     IsStr(categories[2][k][2][2][j])
    /\ IsStr(Get(data, StandardKategorie, JStr(Unsortiert)))
    /\ \A key \in {AusgeschlosseneEndungen, AusgeschlosseneOrdner} :
         /\ IsList(Get(data, key, JList(<<>>)))
         /\ \A j \in 1..Len(Get(data, key, JList(<<>>))[2]) :
               IsStr(Get(data, key, JList(<<>>))[2][j])

\* a from_dict that trims the default category
from_dict_stripping(data) ==
    LET categories == Get(data, Kategorien, JObj(<<>>))
        extensions == Texts(Get(data, AusgeschlosseneEndungen, JList(<<>>)))
        folders == Texts(Get(data, AusgeschlosseneOrdner, JList(<<>>)))
    IN [categories |->
            [k \in 1..Len(categories[2]) |->
                [name |-> categories[2][k][1], exts |-> Texts(categories[2][k][2])]],
        default_category |-> Strip(Get(data, StandardKategorie, JStr(Unsortiert))[2]),
        excluded_extensions |-> {extensions[k] : k \in 1..Len(extensions)},
        excluded_folders |-> {folders[k] : k \in 1..Len(folders)}]

\* SorterConfig.from_dict, on such a document
from_dict(data) ==
    LET categories == Get(data, Kategorien, JObj(<<>>))
        extensions == Texts(Get(data, AusgeschlosseneEndungen, JList(<<>>)))
        folders == Texts(Get(data, AusgeschlosseneOrdner, JList(<<>>)))
    IN [categories |->
            [k \in 1..Len(categories[2]) |->
                [name |-> categories[2][k][1], exts |-> Texts(categories[2][k][2])]],
        default_category |-> Get(data, StandardKategorie, JStr(Unsortiert))[2],
        excluded_extensions |-> {extensions[k] : k \in 1..Len(extensions)},
        excluded_folders |-> {folders[k] : k \in 1..Len(folders)}]

\* create_default_config's default_config
DefaultConfig ==
    [categories |-> <<
        [name |-> <<"B","i","l","d","e","r">>,
         exts |-> <<<<".","j","p","g">>,
                    <<".","p","n","g">>,
                    <<".","g","i","f">>,
                    <<".","b","m","p">>,
                    <<".","s","v","g">>,
                    <<".","i","c","o">>,
                    <<".","w","e","b","p">>>>],
        [name |-> <<"D","o","k","u","m","e","n","t","e">>,
         exts |-> <<<<".","p","d","f">>,
                    <<".","d","o","c">>,
                    <<".","d","o","c","x">>,
                    <<".","t","x","t">>,
                    <<".","o","d","t">>,
                    <<".","r","t","f">>>>],
        [name |-> <<"M","u","s","i","k">>,
         exts |-> <<<<".","m","p","3">>,
                    <<".","w","a","v">>,
                    <<".","f","l","a","c">>,
                    <<".","o","g","g">>,
                    <<".","m","4","a">>,
                    <<".","w","m","a">>>>],
        [name |-> <<"V","i","d","e","o","s">>,
         exts |-> <<<<".","m","p","4">>,
                    <<".","a","v","i">>,
                    <<".","m","k","v">>,
                    <<".","m","o","v">>,
                    <<".","w","m","v">>,
                    <<".","f","l","v">>>>],
        [name |-> <<"A","r","c","h","i","v","e">>,
         exts |-> <<<<".","z","i","p">>,
                    <<".","r","a","r">>,
                    <<".","7","z">>,
                    <<".","t","a","r">>,
                    <<".","g","z">>,
                    <<".","b","z","2">>>>] >>,
     default_category |-> Unsortiert,
     excluded_extensions |-> {<<".","t","m","p">>, <<".","i","n","i">>, <<".","l","o","g">>, <<".","t","e","m","p">>},
     excluded_folders |->
        {<<"t","e","m","p">>,
         <<".","g","i","t">>,
         <<"_","_","p","y","c","a","c","h","e","_","_">>,
         <<"n","o","d","e","_","m","o","d","u","l","e","s">>}]

\* FileSorterApp.create_default_config's default_config
AppDefaultDocument ==
    JObj(<<
        <<Kategorien, JObj(<<
            <<<<"B","i","l","d","e","r">>,
              StrList(<<<<".","j","p","g">>,
                        <<".","j","p","e","g">>,
                        <<".","p","n","g">>,
                        <<".","g","i","f">>,
                        <<".","b","m","p">>,
                        <<".","t","i","f","f">>,
                        <<".","w","e","b","p">>,
                        <<".","h","e","i","c">>>>)>>,
            <<<<"D","o","k","u","m","e","n","t","e">>,
              StrList(<<<<".","p","d","f">>,
                        <<".","d","o","c","x">>,
                        <<".","d","o","c">>,
                        <<".","t","x","t">>,
                        <<".","o","d","t">>,
                        <<".","r","t","f">>,
                        <<".","x","l","s","x">>,
                        <<".","x","l","s">>,
                        <<".","p","p","t","x">>,
                        <<".","p","p","t">>,
                        <<".","m","d">>>>)>>,
            <<<<"M","u","s","i","k">>,
              StrList(<<<<".","m","p","3">>,
                        <<".","w","a","v">>,
                        <<".","f","l","a","c">>,
                        <<".","a","a","c">>,
                        <<".","o","g","g">>,
                        <<".","m","4","a">>>>)>>,
            <<<<"V","i","d","e","o","s">>,
              StrList(<<<<".","m","p","4">>,
                        <<".","m","k","v">>,
                        <<".","a","v","i">>,
                        <<".","m","o","v">>,
                        <<".","w","m","v">>,
                        <<".","f","l","v">>>>)>>,
            <<<<"A","r","c","h","i","v","e">>,
              StrList(<<<<".","z","i","p">>,
                        <<".","r","a","r">>,
                        <<".","7","z">>,
                        <<".","t","a","r">>,
                        <<".","g","z">>,
                        <<".","b","z","2">>>>)>>,
            <<<<"C","o","d","e">>,
              StrList(<<<<".","p","y">>,
                        <<".","j","a","v","a">>,
                        <<".","j","s">>,
                        <<".","h","t","m","l">>,
                        <<".","c","s","s">>,
                        <<".","c","p","p">>,
                        <<".","c">>,
                        <<".","c","s">>,
                        <<".","p","h","p">>,
                        <<".","j","s","o","n">>,
                        <<".","x","m","l">>,
                        <<".","y","a","m","l">>>>)>>,
            <<<<"P","r","o","g","r","a","m","m","e">>,
              StrList(<<<<".","e","x","e">>,
                        <<".","m","s","i">>,
                        <<".","d","m","g">>,
                        <<".","a","p","p">>,
                        <<".","d","e","b">>,
                        <<".","r","p","m">>>>)>>,
            <<<<"F","o","n","t","s">>,
              StrList(<<<<".","t","t","f">>,
                        <<".","o","t","f">>,
                        <<".","w","o","f","f">>,
                        <<".","w","o","f","f","2">>>>)>> >>)>>,
        <<StandardKategorie, JStr(Unsortiert)>>,
        <<AusgeschlosseneEndungen,
          StrList(<<<<".","t","m","p">>,
                    <<".","t","e","m","p">>,
                    <<".","l","n","k">>,
                    <<".","i","n","i">>,
                    <<".","s","y","s">>,
                    <<".","d","l","l">>,
                    <<".","p","a","r","t">>,
                    <<".","c","r","d","o","w","n","l","o","a","d">>,
                    <<".","d","s","_","s","t","o","r","e">>,
                    <<".","l","o","c","a","l","i","z","e","d">>,
                    <<"t","h","u","m","b","s",".","d","b">>,
                    <<"d","e","s","k","t","o","p",".","i","n","i">>>>)>>,
        <<AusgeschlosseneOrdner,
          StrList(<<<<"t","e","m","p">>,
                    <<"t","m","p">>,
                    <<".","g","i","t">>,
                    <<".","s","v","n">>,
                    <<"_","_","p","y","c","a","c","h","e","_","_">>,
                    <<"a","r","c","h","i","v">>,
                    <<"b","a","c","k","u","p">>,
                    <<"s","i","c","h","e","r","u","n","g">>,
                    <<"s","y","s","t","e","m"," ","v","o","l","u","m","e"," ","i","n","f","o","r","m","a","t","i","o","n">>,
                    <<".","t","r","a","s","h">>,
                    <<".","t","r","a","s","h","-","1","0","0","0">>>>)>> >>)

---------------------------------------------------------------------------
(* The configuration file.  json.dump hands the text to the file piece by   *)
(* piece: the opening brace, one piece per member, the closing brace.       *)

Dump(value) ==
    IF IsDict(value)
    THEN <<<<"{">>>>
         \o [k \in 1..Len(value[2]) |-> <<"member", value[2][k][1], value[2][k][2]>>]
         \o <<<<"}">>>>
    ELSE <<<<"value", value>>>>

\* json.JSONDecodeError, where a value was expected
ParseError == <<"error", <<>>>>

IsError(v) == v[1] = "error"

\* json.load of a file's text: the value, or the error it raises
Parse(text) ==
    IF Len(text) = 1 /\ text[1][1] = "value" THEN text[1][2]
    ELSE IF /\ Len(text) >= 2
            /\ text[1][1] = "{"
            /\ text[Len(text)][1] = "}"
            /\ \A k \in 2..(Len(text) - 1) : text[k][1] = "member"
         THEN JObj([k \in 1..(Len(text) - 2) |-> <<text[k + 1][2], text[k + 1][3]>>])
         ELSE ParseError

\* self.config_file
ConfigFile == <<<<"a","p","p">>, <<"s","o","r","t","e","r","_","c","o","n","f","i","g",".","j","s","o","n">>>>

TrueValue == <<"True">>
FalseValue == <<"False">>

ConfigLog(l, texts) == l \o [k \in 1..Len(texts) |-> LogEntry("config", texts[k], 0)]

\* a load that answers a broken file with the sample configuration
LoadedOrDefault(f) ==
    LET data == Parse(f[ConfigFile].data) IN
    IF IsError(data) THEN DefaultConfig ELSE validate_config_data(data)

\* what load_config returns when the file is there and can be read
Loaded(f) ==
    LET data == Parse(f[ConfigFile].data) IN
    IF IsError(data) THEN EmptyConfig ELSE validate_config_data(data)

\* and what it logs then
LoadMessages(f) ==
    LET data == Parse(f[ConfigFile].data) IN
    IF IsError(data) THEN <<"FEHLER Lesen JSON">> ELSE ValidationMessages(data)

\* ConfigManager.load_config
LoadConfig ==
    /\ pc = "idle"
    /\ entry = "load_config"
    /\ \/ /\ ~IsFile(fs, ConfigFile)
          /\ log' = ConfigLog(log, <<"nicht gefunden. Erstelle Standard...">>)
          /\ config' = DefaultConfig
          /\ pc' = "save_open"
          /\ UNCHANGED faults
       \/ /\ IsFile(fs, ConfigFile)
          /\ log' = ConfigLog(log, LoadMessages(fs))
          /\ config' = Loaded(fs)
          /\ pc' = "done"
          /\ UNCHANGED faults
       \/ /\ IsFile(fs, ConfigFile)
          /\ faults < MaxFaults
          /\ faults' = faults + 1
          /\ log' = ConfigLog(log, <<"FEHLER Laden Config">>)
          /\ config' = EmptyConfig
          /\ pc' = "done"
    /\ UNCHANGED <<extension_map, fs, source_dir, target_dir, operation,
                   walk, visited, all_files, idx, cur, result, progress,
                   entry, has_callback, fs0, ret, app>>

\* what FileSorterApp.load_config makes of one extension list item
AppValidExtension(ext) == IsStr(ext) /\ StartsWith(ext[2], <<".">>)

StrItems(items) ==
    LET kept == SelectSeq(items, IsStr) IN [k \in 1..Len(kept) |-> kept[k][2]]

HasList(member) == IsList(member[2])

\* self.categories, as far as the extension map reads it: the members that
\* are lists, with their str items
AppCategories(members) ==
    LET kept == SelectSeq(members, HasList) IN
    [k \in 1..Len(kept) |-> [name |-> kept[k][1], exts |-> StrItems(kept[k][2][2])]]

\* self.default_category_name
AppDefaultCategory(data) ==
    LET loaded_default == Get(data, StandardKategorie, JStr(Unsortiert))
        stripped == IF IsStr(loaded_default) THEN Strip(loaded_default[2]) ELSE Unsortiert
    IN IF stripped = <<>> THEN Unsortiert ELSE stripped

\* the fields FileSorterApp.load_config sets from config_data
AppLoaded(data) ==
    IF IsDict(data) /\ data[2] # <<>>
    THEN LET categories == Get(data, Kategorien, JObj(<<>>))
             excluded_list == Get(data, AusgeschlosseneEndungen, JList(<<>>))
         IN [categories |->
                 IF IsDict(categories) THEN AppCategories(categories[2]) ELSE <<>>,
             default_category |-> AppDefaultCategory(data),
             excluded_extensions |->
                 IF IsList(excluded_list)
                 THEN {Lower(excluded_list[2][k][2]) :
                         k \in {j \in 1..Len(excluded_list[2]) :
                                  AppValidExtension(excluded_list[2][j])}}
                 ELSE {},
             excluded_folders |->
                 validate_folders(Get(data, AusgeschlosseneOrdner, JList(<<>>)))]
    ELSE EmptyConfig

\* the sequences of a sequence, one after the other
RECURSIVE Concat(_)
Concat(seqs) == IF seqs = <<>> THEN <<>> ELSE Head(seqs) \o Concat(Tail(seqs))

\* temp_ext_map when FileSorterApp.load_config's loops reach item j of
\* member k
MapBefore(members, k, j) ==
    MapExtensions(BuildFrom(<<>>, AppCategories(SubSeq(members, 1, k - 1))),
                  members[k][1], StrItems(SubSeq(members[k][2][2], 1, j - 1)))

\* what the loops log for that item
AppExtensionWarning(members, k, j) ==
    LET ext == members[k][2][2][j] IN
    IF ~AppValidExtension(ext) THEN <<"Warnung: Ignoriere ungueltige Endung">>
    ELSE IF Lower(ext[2]) \in DOMAIN MapBefore(members, k, j)
         THEN <<"Warnung: Endung mehrfach definiert">>
         ELSE <<>>

\* and for member k
AppCategoryWarning(members, k) ==
    IF IsList(members[k][2])
    THEN Concat([j \in 1..Len(members[k][2][2]) |-> AppExtensionWarning(members, k, j)])
    ELSE <<"Warnung: Ungueltiges Format fuer Extensions">>

AppCategoryWarnings(members) ==
    Concat([k \in 1..Len(members) |-> AppCategoryWarning(members, k)])

RECURSIVE AppExclusionWarnings(_)
AppExclusionWarnings(items) ==
    IF items = <<>> THEN <<>>
    ELSE (IF AppValidExtension(Head(items)) THEN <<>>
          ELSE <<"Warnung: Ignoriere ungueltige Ausschlusserweiterung">>)
         \o AppExclusionWarnings(Tail(items))

\* the messages FileSorterApp.load_config logs about config_data
AppMessages(data) ==
    IF IsDict(data) /\ data[2] # <<>>
    THEN LET loaded_default == Get(data, StandardKategorie, JStr(Unsortiert))
             categories == Get(data, Kategorien, JObj(<<>>))
             excluded_list == Get(data, AusgeschlosseneEndungen, JList(<<>>))
             excluded_folder_list == Get(data, AusgeschlosseneOrdner, JList(<<>>))
         IN (IF IsStr(loaded_default) /\ Strip(loaded_default[2]) = <<>>
             THEN <<"Warnung: StandardKategorie leer.">> ELSE <<>>)
            \o (IF IsDict(categories) THEN AppCategoryWarnings(categories[2])
                ELSE <<"FEHLER: 'Kategorien' kein Dictionary.">>)
            \o (IF IsList(excluded_list) THEN AppExclusionWarnings(excluded_list[2])
                ELSE <<"Warnung: 'AusgeschlosseneEndungen' keine Liste.">>)
            \o (IF IsList(excluded_folder_list)
                THEN FolderWarnings(excluded_folder_list[2])
                ELSE <<"Warnung: 'AusgeschlosseneOrdner' keine Liste.">>)
    ELSE <<"Konfigformat ungueltig. Verwende Defaults.">>

\* FileSorterApp.load_config
AppLoadConfig ==
    /\ pc = "idle"
    /\ entry = "app_load_config"
    /\ \/ /\ ~IsFile(fs, ConfigFile)
          /\ log' = ConfigLog(log, <<"nicht gefunden. Erstelle Standard...">>)
          /\ config' = EmptyConfig
          /\ extension_map' = <<>>
          /\ pc' = "save_open"
          /\ UNCHANGED faults
       \/ /\ IsFile(fs, ConfigFile)
          /\ LET data == Parse(fs[ConfigFile].data) IN
             IF IsError(data)
             THEN /\ log' = ConfigLog(log, <<"FEHLER Lesen JSON">>)
                  /\ config' = EmptyConfig
                  /\ extension_map' = <<>>
             ELSE /\ log' = ConfigLog(log, AppMessages(data))
                  /\ config' = AppLoaded(data)
                  /\ extension_map' = build_extension_map(AppLoaded(data))
          /\ pc' = "done"
          /\ UNCHANGED faults
       \/ /\ IsFile(fs, ConfigFile)
          /\ faults < MaxFaults
          /\ faults' = faults + 1
          /\ log' = ConfigLog(log, <<"FEHLER Laden Config">>)
          /\ config' = EmptyConfig
          /\ extension_map' = <<>>
          /\ pc' = "done"
    /\ UNCHANGED <<fs, source_dir, target_dir, operation,
                   walk, visited, all_files, idx, cur, result, progress,
                   entry, has_callback, fs0, ret, app>>

\* the callers that write the configuration file themselves
Savers == {"save_config", "save_changes"}

\* the document a save is writing
Writing ==
    CASE entry = "app_load_config" -> AppDefaultDocument
      [] entry = "category_editor" -> to_dict(edited_config)
      [] OTHER -> to_dict(config)

AtSaveOpen == pc = "save_open" \/ (pc = "idle" /\ entry \in Savers)

\* what follows the with block, up to the return of the method that was
\* called: save_config's result, create_default_config's and load_config's
\* use of it
AfterSave(ok) ==
    /\ pc' = CASE entry # "category_editor" -> "done"
                [] ok -> "saved"
                [] OTHER -> "editing"
    /\ \/ /\ entry = "save_config"
          /\ ret' = IF ok THEN TrueValue ELSE FalseValue
          /\ log' = IF ok THEN log
                    ELSE ConfigLog(log, <<"FEHLER Speichern Config">>)
          /\ UNCHANGED <<config, extension_map>>
       \/ /\ entry = "save_changes"
          /\ UNCHANGED <<ret, log, config, extension_map>>
       \/ /\ entry = "category_editor"
          /\ log' = IF ok THEN log
                    ELSE ConfigLog(log, <<"FEHLER Speichern Config">>)
          /\ UNCHANGED <<ret, config, extension_map>>
       \/ /\ entry = "load_config"
          /\ log' = ConfigLog(log, IF ok THEN <<"Standard-Config erstellt.">>
                                   ELSE <<"FEHLER Speichern Config">>)
          /\ config' = IF ok THEN config ELSE EmptyConfig
          /\ UNCHANGED <<ret, extension_map>>
       \/ /\ entry = "app_load_config"
          /\ log' = ConfigLog(log,
                        IF ok
                        THEN <<"Standard-Konfigurationsdatei erstellt.">>
                             \o AppMessages(AppDefaultDocument)
                        ELSE <<"FEHLER Erstellen Config",
                               "FEHLER: Konnte keine Standardkonfiguration erstellen.">>)
          /\ config' = IF ok THEN AppLoaded(AppDefaultDocument) ELSE config
          /\ extension_map' =
                IF ok THEN build_extension_map(AppLoaded(AppDefaultDocument))
                ELSE extension_map
          /\ UNCHANGED ret

\* open(self.config_file, 'w'): the file is created or emptied, or open raises
SaveOpen ==
    /\ AtSaveOpen
    /\ \/ /\ fs' = WriteFile(fs, ConfigFile, <<>>)
          /\ pc' = "save_write"
          /\ UNCHANGED <<faults, config, extension_map, log, ret>>
       \/ /\ faults < MaxFaults
          /\ faults' = faults + 1
          /\ AfterSave(FALSE)
          /\ UNCHANGED fs
    /\ UNCHANGED <<source_dir, target_dir, operation,
                   walk, visited, all_files, idx, cur, result, progress,
                   entry, has_callback, fs0, app>>

\* json.dump: the next piece reaches the file, or the write raises and the
\* with block closes the file as it is
SaveWrite ==
    /\ pc = "save_write"
    /\ Len(fs[ConfigFile].data) < Len(Dump(Writing))
    /\ \/ /\ fs' = WriteFile(fs, ConfigFile,
                             SubSeq(Dump(Writing), 1, Len(fs[ConfigFile].data) + 1))
          /\ UNCHANGED <<pc, faults, config, extension_map, log, ret>>
       \/ /\ faults < MaxFaults
          /\ faults' = faults + 1
          /\ AfterSave(FALSE)
          /\ UNCHANGED fs
    /\ UNCHANGED <<source_dir, target_dir, operation,
                   walk, visited, all_files, idx, cur, result, progress,
                   entry, has_callback, fs0, app>>

\* the with block ends after the last piece
SaveClose ==
    /\ pc = "save_write"
    /\ Len(fs[ConfigFile].data) = Len(Dump(Writing))
    /\ AfterSave(TRUE)
    /\ UNCHANGED <<fs, source_dir, target_dir, operation,
                   walk, visited, all_files, idx, cur, result, progress,
                   faults, entry, has_callback, fs0, app>>

\* the process is killed while the file is open for writing
Crash ==
    /\ pc = "save_write"
    /\ pc' = "crashed"
    /\ UNCHANGED <<config, extension_map, fs, source_dir, target_dir, operation,
                   walk, visited, all_files, idx, cur, result, log, progress,
                   faults, entry, has_callback, fs0, ret, app>>

\* SorterConfig.from_dict applied to the document in the file
FromDict ==
    /\ pc = "idle"
    /\ entry = "from_dict"
    /\ IsFile(fs, ConfigFile)
    /\ ~IsError(Parse(fs[ConfigFile].data))
    /\ Typed(Parse(fs[ConfigFile].data))
    /\ config' = from_dict(Parse(fs[ConfigFile].data))
    /\ pc' = "done"
    /\ UNCHANGED <<extension_map, fs, source_dir, target_dir, operation,
                   walk, visited, all_files, idx, cur, result, log, progress,
                   faults, entry, has_callback, fs0, ret, app>>

\* to_dict and from_dict applied, one after the other, to the configuration
\* a document gave
RoundTrip ==
    /\ pc = "done"
    /\ entry \in {"load_config", "from_dict"}
    /\ ret' = <<"SorterConfig", from_dict(to_dict(config))>>
    /\ pc' = "tripped"
    /\ UNCHANGED <<config, extension_map, fs, source_dir, target_dir, operation,
                   walk, visited, all_files, idx, cur, result, log, progress,
                   faults, entry, has_callback, fs0, app>>

---------------------------------------------------------------------------
(* The settings editor of category_editor.py. *)

\* ValidationHelper.validate_extension: (is_valid, cleaned_ext)
validate_extension(ext) ==
    LET stripped == Lower(Strip(ext))
        dotted == IF StartsWith(stripped, Dot) THEN stripped ELSE Dot \o stripped
    IN IF stripped = <<>> THEN <<FALSE, <<>>>>
       ELSE IF Len(dotted) < 2 THEN <<FALSE, dotted>>
       ELSE <<TRUE, dotted>>

\* ValidationHelper.validate_folder_name: (is_valid, cleaned_folder)
validate_folder_name(folder) ==
    LET stripped == Strip(folder) IN
    IF stripped = <<>> THEN <<FALSE, <<>>>>
    ELSE IF \E k \in 1..Len(stripped) : stripped[k] = "/" THEN <<FALSE, stripped>>
    ELSE <<TRUE, Lower(stripped)>>

\* the keys of a categories dict
CategoryNames(c) == {c.categories[k].name : k \in 1..Len(c.categories)}

\* categories[name]
ExtensionsOf(c, name) ==
    c.categories[CHOOSE k \in 1..Len(c.categories) : c.categories[k].name = name].exts

\* the items of a list
Items(list) == {list[k] : k \in 1..Len(list)}

\* list.remove(x): the first occurrence goes
ListRemove(list, x) ==
    LET first == CHOOSE k \in 1..Len(list) :
                     list[k] = x /\ \A j \in 1..(k - 1) : list[j] # x
    IN SubSeq(list, 1, first - 1) \o SubSeq(list, first + 1, Len(list))

\* self.original_config after the editor wrote to self.edited_config:
\* copy.deepcopy made edited_config a separate object
CallersConfig(original, edited) == original

\* one write to self.edited_config by a handler of the open editor
EditorWrites(edited) ==
    /\ entry = "category_editor"
    /\ pc = "editing"
    /\ edited_config' = edited
    /\ config' = CallersConfig(config, edited)
    /\ UNCHANGED <<extension_map, fs, source_dir, target_dir, operation,
                   walk, visited, all_files, idx, cur, result, log, progress,
                   faults, entry, has_callback, fs0, ret, pc,
                   window_exists, start_button, progress_bar, after_queue>>

\* CategoryEditor._add_category, new_category being what the dialog returned
AddCategory(new_category) ==
    /\ entry = "category_editor"
    /\ EditorWrites(
         IF new_category = <<>> \/ Strip(new_category) = <<>>
            \/ Strip(new_category) \in CategoryNames(edited_config)
         THEN edited_config
         ELSE [edited_config EXCEPT !.categories =
                  Append(@, [name |-> Strip(new_category), exts |-> <<>>])])

\* CategoryEditor._remove_category, confirmed
RemoveCategory(selected) ==
    /\ entry = "category_editor"
    /\ selected \in CategoryNames(edited_config)
    /\ EditorWrites(
         [edited_config EXCEPT !.categories =
             LET Other(category) == category.name # selected IN SelectSeq(@, Other)])

\* CategoryEditor._add_extension
AddExtension(selected_category, ext_input) ==
    /\ entry = "category_editor"
    /\ selected_category \in CategoryNames(edited_config)
    /\ LET checked == validate_extension(ext_input) IN
       EditorWrites(
         IF ~checked[1]
            \/ checked[2] \in Items(ExtensionsOf(edited_config, selected_category))
         THEN edited_config
         ELSE [edited_config EXCEPT !.categories =
                  [k \in 1..Len(@) |->
                      IF @[k].name = selected_category
                      THEN [@[k] EXCEPT !.exts = Append(@, checked[2])]
                      ELSE @[k]]])

\* CategoryEditor._remove_extension, confirmed
RemoveExtension(selected_category, selected_extension) ==
    /\ entry = "category_editor"
    /\ selected_category \in CategoryNames(edited_config)
    /\ selected_extension \in Items(ExtensionsOf(edited_config, selected_category))
    /\ EditorWrites(
         [edited_config EXCEPT !.categories =
             [k \in 1..Len(@) |->
                 IF @[k].name = selected_category
                 THEN [@[k] EXCEPT !.exts = ListRemove(@, selected_extension)]
                 ELSE @[k]]])

\* CategoryEditor._add_exclusion
AddExclusion(ext_input) ==
    /\ entry = "category_editor"
    /\ LET checked == validate_extension(ext_input) IN
       EditorWrites(
         IF ~checked[1] THEN edited_config
         ELSE [edited_config EXCEPT !.excluded_extensions = @ \cup {checked[2]}])

\* CategoryEditor._remove_exclusion, confirmed
RemoveExclusion(selected) ==
    /\ entry = "category_editor"
    /\ selected \in edited_config.excluded_extensions
    /\ EditorWrites([edited_config EXCEPT !.excluded_extensions = @ \ {selected}])

\* CategoryEditor._add_folder_exclusion
AddFolderExclusion(folder_input) ==
    /\ entry = "category_editor"
    /\ LET checked == validate_folder_name(folder_input) IN
       EditorWrites(
         IF ~checked[1] THEN edited_config
         ELSE [edited_config EXCEPT !.excluded_folders = @ \cup {checked[2]}])

\* CategoryEditor._remove_folder_exclusion, confirmed
RemoveFolderExclusion(selected) ==
    /\ entry = "category_editor"
    /\ selected \in edited_config.excluded_folders
    /\ EditorWrites([edited_config EXCEPT !.excluded_folders = @ \ {selected}])

\* CategoryEditor.save_changes, up to the call of save_config; SaveOpen,
\* SaveWrite and SaveClose are save_config, and AfterSave the destroy() a
\* True result leads to
SaveChanges ==
    /\ entry = "category_editor"
    /\ pc = "editing"
    /\ pc' = "save_open"
    /\ UNCHANGED <<config, extension_map, fs, source_dir, target_dir, operation,
                   walk, visited, all_files, idx, cur, result, log, progress,
                   faults, entry, has_callback, fs0, ret, app>>

\* CategoryEditor.cancel_changes, also the window's close button
CancelChanges ==
    /\ entry = "category_editor"
    /\ pc = "editing"
    /\ pc' = "cancelled"
    /\ UNCHANGED <<config, extension_map, fs, source_dir, target_dir, operation,
                   walk, visited, all_files, idx, cur, result, log, progress,
                   faults, entry, has_callback, fs0, ret, app>>

\* the editor is gone after a save; ConfigManager.load_config is called next
ThenLoadConfig ==
    /\ entry = "category_editor"
    /\ pc = "saved"
    /\ entry' = "load_config"
    /\ pc' = "idle"
    /\ UNCHANGED <<config, extension_map, fs, source_dir, target_dir, operation,
                   walk, visited, all_files, idx, cur, result, log, progress,
                   faults, has_callback, fs0, ret, app>>

---------------------------------------------------------------------------
(* Inputs. *)

Category(name, exts) == [name |-> name, exts |-> exts]

Cats0 == <<>>
Cats1 == <<Category(Pic, <<jpg>>), Category(Doc, <<txt>>)>>
\* .jpg declared twice (the later category wins), .log mapped
Cats2 == <<Category(Pic, <<jpg, logx>>), Category(Doc, <<jpg>>)>>

Cfg(cats, def, xe, xf) ==
    [categories |-> cats, default_category |-> def,
     excluded_extensions |-> xe, excluded_folders |-> xf]

\* configurations as ConfigManager and the settings editor produce them
AllConfigs ==
    {Cfg(cats, def, xe, {tmp}) :
        cats \in {Cats0, Cats1, Cats2}, def \in {Unsortiert, Pic, Doc},
        xe \in SUBSET {logx, jpg}}

RunConfigs ==
    {EmptyConfig, Cfg(Cats1, Unsortiert, {logx}, {tmp}), Cfg(Cats2, Pic, {logx}, {tmp})}

FileNames ==
    {a_jpg, a_JPG, b_log, c_txt, note, dotenv, a_dot, CounterName(a_jpg, 1),
     <<"x",".","t","a","r",".","l","o","g">>, <<"B",".","L","o","g">>}

Operations == {"copy", "move", "link"}

\* a filesystem holding the given files (path -> content) and directories
MkFs(files, dirs) ==
    LET parents == UNION {Prefixes(DirName(p)) : p \in DOMAIN files}
        alldirs == parents \cup UNION {Prefixes(d) : d \in dirs}
    IN [p \in DOMAIN files \cup alldirs |->
           IF p \in DOMAIN files THEN FileNode(files[p]) ELSE DirNode]

\* files of the source tree hold their own original path as content
Own(paths) == [p \in paths |-> <<p>>]

OldData == <<<<"old">>>>

\* name.ext, name(1).ext, ..., name(k-1).ext: k names taken in directory d
TakenNames(d, filename, k) ==
    {Join(d, <<n>>) : n \in {filename : j \in 1..(IF k > 0 THEN 1 ELSE 0)}
                          \cup {CounterName(filename, j) : j \in 1..(k - 1)}}

Idle(e, start) ==
    /\ entry = e
    /\ pc = start
    /\ walk = <<>>
    /\ visited = {}
    /\ all_files = <<>>
    /\ idx = 0
    /\ result = ZeroResult
    /\ log = <<>>
    /\ progress = <<>>
    /\ faults = 0
    /\ fs0 = fs
    /\ extension_map = build_extension_map(config)
    /\ window_exists = TRUE
    /\ start_button = "normal"
    /\ progress_bar = [value |-> 0, maximum |-> 100]
    /\ after_queue = <<>>
    /\ ret = NoneValue
    /\ edited_config = NoneValue

\* a sort run
RunFiles ==
    {<<src, a_jpg>>, <<src, sub, a_jpg>>, <<src, b_log>>, <<src, note>>,
     <<src, tmp, c_txt>>}

RunTargets == {<<dst>>, <<src, out>>}

Init ==
    /\ config \in RunConfigs
    /\ source_dir = <<src>>
    /\ target_dir \in RunTargets
    /\ operation \in Operations
    /\ has_callback = TRUE
    /\ cur = NoCur
    /\ \E present \in {S \in SUBSET RunFiles : Cardinality(S) <= MaxFiles},
          pre \in 0..MaxPre :
         LET d == Join(target_dir,
                       categorize_file(config, build_extension_map(config),
                                       <<src, a_jpg>>)[2])
             old == TakenNames(d, a_jpg, pre)
         IN fs = MkFs(Own(present) @@ [p \in old |-> OldData], {source_dir})
    /\ Idle("sort_files", "idle")

Next ==
    \/ SortFilesStart
    \/ DiscoverStart
    \/ WalkStep
    \/ DiscoverReturn
    \/ SortFilesBegin
    \/ SkipExcluded
    \/ BeginUnique
    \/ UniqueStart
    \/ ProbeStep
    \/ UniqueReturn
    \/ ProcessFile
    \/ SortFilesReturn

Spec == Init /\ [][Next]_vars

\* discover_files alone, over a tree with excluded folders and a target tree
TreeFiles(r) ==
    {Join(r, <<a_jpg>>), Join(r, <<sub, a_jpg>>), Join(r, <<TmpCap, a_jpg>>),
     Join(r, <<sub, tmp, c_txt>>), Join(r, <<TmpCap, sub, c_txt>>),
     Join(r, <<out, Pic, <<"j","p","g">>, a_jpg>>),
     Join(r, <<out \o <<"2">>, c_txt>>)}

InitWalk ==
    /\ config \in {Cfg(Cats1, Unsortiert, {logx}, xf) : xf \in {{}, {tmp}, {tmp, sub}}}
    /\ source_dir \in {<<src>>, <<tmp>>}
    /\ target_dir \in {<<dst>>, Join(source_dir, <<out>>), Join(source_dir, <<Dot, out>>)}
    /\ operation = "copy"
    /\ has_callback = FALSE
    /\ cur = NoCur
    /\ \E present \in {S \in SUBSET TreeFiles(source_dir) : Cardinality(S) <= MaxTreeFiles} :
         fs = MkFs(Own(present), {source_dir})
    /\ Idle("discover_files", "discover")

NextWalk == DiscoverStart \/ WalkStep \/ DiscoverReturn

SpecWalk == InitWalk /\ [][NextWalk]_vars

\* categorize_file alone, over every configuration and file name
InitCategorize ==
    /\ config \in AllConfigs
    /\ source_dir = <<src>>
    /\ target_dir = <<dst>>
    /\ operation = "copy"
    /\ has_callback = FALSE
    /\ cur = NoCur
    /\ fs = MkFs(<<>>, {source_dir})
    /\ Idle("categorize_file", "idle")

NextCategorize == \E name \in FileNames : CallCategorize(<<src, name>>)

SpecCategorize == InitCategorize /\ [][NextCategorize]_vars

\* build_extension_map alone: extensions declared twice, in upper case,
\* without a dot, twice in one list, and categories without extensions
BuildCategories ==
    {Cats0, Cats1, Cats2,
     <<Category(Pic, <<Lower(jpg), <<".","J","P","G">>>>), Category(Doc, <<jpg>>),
       Category(Unsortiert, <<<<".","T","x","t">>, jpg>>)>>,
     <<Category(Pic, <<Tail(jpg), txt>>), Category(Doc, <<txt, Tail(txt)>>)>>,
     <<Category(Doc, <<jpg, jpg>>), Category(Pic, <<>>)>>}

BuildConfigs ==
    {Cfg(cats, def, xe, xf) :
        cats \in BuildCategories, def \in {Unsortiert, Pic},
        xe \in SUBSET {logx, jpg}, xf \in {{}, {tmp}}}

InitBuild ==
    /\ config \in BuildConfigs
    /\ source_dir = <<src>>
    /\ target_dir = <<dst>>
    /\ operation = "copy"
    /\ has_callback = FALSE
    /\ cur = NoCur
    /\ fs = MkFs(<<>>, {source_dir})
    /\ entry = "build_extension_map"
    /\ pc = "idle"
    /\ walk = <<>>
    /\ visited = {}
    /\ all_files = <<>>
    /\ idx = 0
    /\ result = ZeroResult
    /\ log = <<>>
    /\ progress = <<>>
    /\ faults = 0
    /\ fs0 = fs
    /\ extension_map = <<>>
    /\ window_exists = TRUE
    /\ start_button = "normal"
    /\ progress_bar = [value |-> 0, maximum |-> 100]
    /\ after_queue = <<>>
    /\ ret = NoneValue
    /\ edited_config = NoneValue

NextBuild == BuildExtensionMap

SpecBuild == InitBuild /\ [][NextBuild]_vars

\* get_unique_target_path alone, over directories with any of the candidate
\* names taken, by files or by a directory
UniqueNames == {a_jpg, note, dotenv}

InitUnique ==
    /\ config = EmptyConfig
    /\ source_dir = <<src>>
    /\ target_dir = <<dst>>
    /\ operation = "copy"
    /\ has_callback = FALSE
    /\ \E filename \in UniqueNames, asdir \in BOOLEAN :
       \E taken \in SUBSET TakenNames(<<dst>>, filename, MaxPre + 2) :
         /\ cur = [NoCur EXCEPT !.filename = filename, !.category_dir = <<dst>>]
         /\ LET asdirs == IF asdir
                          THEN taken \cap {Join(<<dst>>, <<CounterName(filename, 1)>>)}
                          ELSE {}
            IN fs = MkFs([p \in taken \ asdirs |-> OldData], {<<dst>>} \cup asdirs)
    /\ Idle("get_unique_target_path", "unique_call")

NextUnique == UniqueStart \/ ProbeStep \/ UniqueReturn

\* the loop runs in the caller's thread: it is never suspended for ever
SpecUnique == InitUnique /\ [][NextUnique]_vars /\ WF_vars(NextUnique)

\* the application: a start of the sort thread from the window
AppTargets == {<<dst>>, <<src, out>>, <<src>>, NoPath}

\* the source is a directory or, in a few runs, the root of the filesystem
AppSources == {<<src>>, Root}

AppFiles == {<<src, a_jpg>>, <<src, sub, a_jpg>>, <<src, b_log>>, <<src, tmp, c_txt>>}

\* a file standing where a category directory would be made
Blocking == {<<dst, Doc>>}

InitApp ==
    /\ config \in RunConfigs
    /\ source_dir \in AppSources
    /\ target_dir \in AppTargets
    /\ operation \in {"copy", "move"}
    /\ source_dir = Root => config = EmptyConfig /\ operation = "copy"
    /\ has_callback = FALSE
    /\ cur = NoCur
    /\ \E present \in {S \in SUBSET AppFiles : Cardinality(S) <= MaxAppFiles},
          pre \in 0..MaxPre, blocked \in SUBSET Blocking :
         LET d == AppCategoryTargetDir(config, build_extension_map(config),
                                       <<dst>>, jpg)
             old == TakenNames(d, a_jpg, pre) \cup blocked
         IN /\ source_dir = Root =>
                 Cardinality(present) <= 1 /\ pre = 0 /\ blocked = {}
            /\ fs = MkFs(Own(present) @@ [p \in old |-> OldData], {<<src>>})
    /\ Idle("start_sorting_thread", "app_idle")

NextApp ==
    \/ StartSortingThread
    \/ AppSortStart
    \/ AppWalkStep
    \/ AppFound
    \/ AppCancel
    \/ AppCheckWindow
    \/ AppHandleFile
    \/ AppAfterProgress
    \/ AppFinish
    \/ MainLoop
    \/ CloseWindow

SpecApp == InitApp /\ [][NextApp]_vars

\* a run of either implementation of the sort, started by a host with a
\* window: the engine's sort_files, over directories that passed the
\* pre-flight check, or the application's sort thread
InitRun ==
    \/ Init /\ validate_directories(fs, source_dir, target_dir) = NoneValue
            /\ operation \in {"copy", "move"}
            /\ Cardinality(FilesUnder(fs, source_dir)) <= MaxAppFiles
    \/ InitApp

NextRun == Next \/ NextApp

SpecRun == InitRun /\ [][NextRun]_vars

\* the engine's sort_files and then the application's on the same inputs,
\* with a window that stays and a filesystem that fails only where the tree
\* itself makes it fail (a file standing where a category directory belongs)
BothConfigs ==
    {Cfg(<<Category(Pic, <<jpg, Dot>>), Category(Doc, <<txt>>)>>, Unsortiert, {logx}, {tmp}),
     Cfg(Cats2, Pic, {logx}, {tmp})}

BothFiles ==
    {<<src, a_jpg>>, <<src, sub, a_jpg>>, <<src, b_log>>, <<src, c_txt>>, <<src, a_dot>>}

InitBoth ==
    /\ config \in BothConfigs
    /\ source_dir = <<src>>
    /\ target_dir \in RunTargets
    /\ operation \in {"copy", "move"}
    /\ has_callback = TRUE
    /\ cur = NoCur
    /\ \E present \in {S \in SUBSET BothFiles : Cardinality(S) <= MaxAppFiles},
          pre \in 0..MaxPre, blocked \in SUBSET {Join(target_dir, <<Doc>>)} :
         LET d == Join(target_dir,
                       categorize_file(config, build_extension_map(config),
                                       <<src, a_jpg>>)[2])
             old == TakenNames(d, a_jpg, pre) \cup blocked
         IN fs = MkFs(Own(present) @@ [p \in old |-> OldData], {source_dir})
    /\ entry = "sort_files"
    /\ pc = "idle"
    /\ walk = <<>>
    /\ visited = {}
    /\ all_files = <<>>
    /\ idx = 0
    /\ result = ZeroResult
    /\ log = <<>>
    /\ progress = <<>>
    /\ faults = MaxFaults
    /\ fs0 = fs
    /\ extension_map = build_extension_map(config)
    /\ window_exists = TRUE
    /\ start_button = "disabled"
    /\ progress_bar = [value |-> 0, maximum |-> 100]
    /\ after_queue = <<>>
    /\ ret = NoneValue
    /\ edited_config = NoneValue

NextBoth ==
    \/ Next
    \/ AgainInApplication
    \/ AppSortStart
    \/ AppWalkStep
    \/ AppFound
    \/ AppCheckWindow
    \/ AppHandleFile
    \/ AppAfterProgress
    \/ AppFinish
    \/ MainLoop

SpecBoth == InitBoth /\ [][NextBoth]_vars

\* one window over several starts: runs that find nothing, that end
\* normally, that fail, that are cancelled by closing the window, and starts
\* that are refused
InitRuns ==
    /\ config = Cfg(Cats1, Unsortiert, {logx}, {tmp})
    /\ source_dir = <<src>>
    /\ target_dir \in {<<dst>>, NoPath}
    /\ operation \in {"copy", "move"}
    /\ has_callback = FALSE
    /\ cur = NoCur
    /\ \E present \in SUBSET {<<src, a_jpg>>, <<src, b_log>>} :
         fs = MkFs(Own(present), {<<src>>})
    /\ Idle("start_sorting_thread", "app_idle")

\* the steps of the sort thread
ThreadStep ==
    \/ AppSortStart
    \/ AppWalkStep
    \/ AppFound
    \/ AppCancel
    \/ AppCheckWindow
    \/ AppHandleFile
    \/ AppAfterProgress
    \/ AppFinish

NextRuns ==
    \/ StartSortingThread
    \/ ThreadStep
    \/ AppFatalError
    \/ MainLoop
    \/ CloseWindow
    \/ BackToIdle

\* the scheduler runs the thread: it does not stay at a running position
\* without taking a step (a running thread always has a step to take); and
\* the main loop of an existing window runs the callbacks handed to it
SpecRuns ==
    /\ InitRuns
    /\ [][NextRuns]_vars
    /\ (<>[]ThreadRunning => []<><<ThreadStep>>_vars)
    /\ WF_vars(MainLoop)

\* a run during which the settings editor is opened, and closed with or
\* without a change saved
StartConfig == Cfg(Cats1, Unsortiert, {logx}, {tmp})

EditedConfigs ==
    {StartConfig,
     Cfg(Cats1, Unsortiert, {}, {}),
     Cfg(<<Category(Doc, <<jpg, txt>>)>>, Pic, {logx}, {tmp})}

InitReload ==
    /\ config = StartConfig
    /\ source_dir = <<src>>
    /\ target_dir = <<dst>>
    /\ operation \in {"copy", "move"}
    /\ has_callback = FALSE
    /\ cur = NoCur
    /\ \E present \in SUBSET {<<src, a_jpg>>, <<src, b_log>>, <<src, tmp, c_txt>>} :
         fs = MkFs(Own(present), {<<src>>})
    /\ Idle("start_sorting_thread", "app_idle")

NextReload ==
    \/ StartSortingThread
    \/ AppSortStart
    \/ AppWalkStep
    \/ AppFound
    \/ AppCheckWindow
    \/ AppHandleFile
    \/ AppAfterProgress
    \/ AppFinish
    \/ MainLoop
    \/ ThreadRunning /\ OpenCategoryEditor
    \/ \E loaded \in EditedConfigs : ReloadConfig(loaded)

SpecReload == InitReload /\ [][NextReload]_vars

\* validate_directories alone, over present and absent, plain and dotted,
\* nested and merely similar paths
ValidateSources ==
    {<<>>, Root, <<src>>, <<src, sub>>, <<src, a_jpg>>, <<tmp>>, <<src, Dot>>}

ValidateTargets ==
    {<<>>, Root, <<dst>>, <<src>>, <<src, out>>, <<src, Dot>>, <<src \o <<"2">>>>,
     <<src, sub, DotDot>>, <<src, DotDot, dst>>, <<src, sub, out>>}

InitValidate ==
    /\ config = EmptyConfig
    /\ source_dir \in ValidateSources
    /\ target_dir \in ValidateTargets
    /\ operation = "copy"
    /\ has_callback = FALSE
    /\ cur = NoCur
    /\ \E present \in SUBSET {<<src, a_jpg>>, <<src, sub, a_jpg>>, <<dst, a_jpg>>} :
         fs = MkFs(Own(present), {})
    /\ Idle("validate_directories", "idle")

NextValidate == ValidateDirectories

SpecValidate == InitValidate /\ [][NextValidate]_vars

\* configuration documents: members present or missing, of the right and of
\* the wrong type, with entries the validators keep, change and drop
Absent == <<"absent", <<>>>>

Member(key, v) == IF v[1] = "absent" THEN <<>> ELSE <<<<key, v>>>>

Blank == <<" ">>
a_b == <<"a","/","b">>

KategorienValues ==
    {Absent, JNum,
     JObj(<<<<Pic, StrList(<<jpg>>)>>, <<Doc, StrList(<<txt, jpg>>)>>>>),
     JObj(<<<<Pic, JNum>>, <<Doc, StrList(<<<<".","T","X","T">>>>)>>>>),
     JObj(<<<<Pic, JList(<<JStr(<<"j","p","g">>), JStr(Dot), JNum>>)>>,
            <<<<>>, StrList(<<logx>>)>>>>)}

StandardKategorieValues ==
    {Absent, JNum, JStr(<<>>), JStr(Blank), JStr(Doc), JStr(Blank \o Pic \o Blank)}

AusgeschlosseneEndungenValues ==
    {Absent, JNum, StrList(<<logx, jpg>>),
     JList(<<JStr(<<".","T","M","P">>), JStr(<<"l","o","g">>), JStr(Dot), JNum>>)}

AusgeschlosseneOrdnerValues ==
    {Absent, JNum, StrList(<<tmp, sub>>), StrList(<<a_b>>),
     JList(<<JStr(Blank \o TmpCap \o Blank), JStr(<<>>), JStr(Blank), JNum>>)}

ObjectDocuments ==
    {JObj(Member(Kategorien, k) \o Member(StandardKategorie, d)
          \o Member(AusgeschlosseneEndungen, e) \o Member(AusgeschlosseneOrdner, o)) :
        k \in KategorienValues, d \in StandardKategorieValues,
        e \in AusgeschlosseneEndungenValues, o \in AusgeschlosseneOrdnerValues}

\* JSON texts whose value is not an object
OtherDocuments == {JNum, JList(<<>>), JStr(Doc)}

\* texts json.load rejects: an empty file, a cut-off object, no JSON at all
BrokenTexts ==
    {<<>>, <<<<"{">>>>, <<<<"{">>, <<"member", StandardKategorie, JStr(Doc)>>>>,
     <<<<"garbage">>>>}

ConfigTexts == {Dump(d) : d \in ObjectDocuments \cup OtherDocuments} \cup BrokenTexts

\* the configurations handed to a save
SaveConfigs ==
    {EmptyConfig, Cfg(Cats1, Unsortiert, {logx}, {tmp}),
     Cfg(Cats2, Pic, {logx, jpg}, {tmp, sub})}

\* what the file holds before a save
SaveTexts ==
    {Dump(to_dict(c)) : c \in SaveConfigs} \cup {Dump(JObj(<<>>))}

Loaders == {"load_config", "app_load_config", "from_dict"}

InitConfig ==
    /\ source_dir = <<src>>
    /\ target_dir = <<dst>>
    /\ operation = "copy"
    /\ has_callback = FALSE
    /\ cur = NoCur
    /\ \/ /\ entry \in Loaders
          /\ config = EmptyConfig
          /\ \/ fs = MkFs(<<>>, {DirName(ConfigFile)})
             \/ \E text \in ConfigTexts :
                  fs = MkFs([p \in {ConfigFile} |-> text], {})
       \/ /\ entry \in Savers
          /\ config \in SaveConfigs
          /\ \/ fs = MkFs(<<>>, {DirName(ConfigFile)})
             \/ \E text \in SaveTexts :
                  fs = MkFs([p \in {ConfigFile} |-> text], {})
    /\ \E e \in Loaders \cup Savers : Idle(e, "idle")

NextConfig ==
    \/ LoadConfig
    \/ AppLoadConfig
    \/ SaveOpen
    \/ SaveWrite
    \/ SaveClose
    \/ Crash
    \/ FromDict
    \/ RoundTrip

SpecConfig == InitConfig /\ [][NextConfig]_vars

\* the configurations a settings editor is opened on, each as load_config
\* returned it from the file
EditorConfigs ==
    {Cfg(<<Category(Pic, <<jpg>>)>>, Unsortiert, {logx}, {}),
     Cfg(<<>>, Pic, {}, {tmp})}

\* what the user types into the editor's dialogs and entry fields
Neu == <<"N","e","u">>
CategoryInputs == {<<" ">> \o Neu \o <<" ">>, Pic, <<" ">>, <<>>}
ExtensionInputs == {<<"J","P","G"," ">>, Dot, <<>>}
ExclusionInputs == {<<" ",".","L","o","g">>, <<>>}
FolderInputs == {TmpCap, <<"a","/","b">>, <<" ">>}

InitEditor ==
    /\ source_dir = <<src>>
    /\ target_dir = <<dst>>
    /\ operation = "copy"
    /\ has_callback = FALSE
    /\ cur = NoCur
    /\ config \in EditorConfigs
    /\ fs = MkFs([p \in {ConfigFile} |-> Dump(to_dict(config))], {})
    /\ entry = "category_editor"
    /\ pc = "editing"
    /\ walk = <<>>
    /\ visited = {}
    /\ all_files = <<>>
    /\ idx = 0
    /\ result = ZeroResult
    /\ log = <<>>
    /\ progress = <<>>
    /\ faults = 0
    /\ fs0 = fs
    /\ extension_map = build_extension_map(config)
    /\ window_exists = TRUE
    /\ start_button = "normal"
    /\ progress_bar = [value |-> 0, maximum |-> 100]
    /\ after_queue = <<>>
    /\ ret = NoneValue
    /\ edited_config = config

NextEditor ==
    \/ \E new_category \in CategoryInputs : AddCategory(new_category)
    \/ \E selected \in CategoryNames(edited_config) : RemoveCategory(selected)
    \/ \E selected_category \in CategoryNames(edited_config),
          ext_input \in ExtensionInputs :
            AddExtension(selected_category, ext_input)
    \/ \E selected_category \in CategoryNames(edited_config) :
          \E selected_extension \in
                Items(ExtensionsOf(edited_config, selected_category)) :
            RemoveExtension(selected_category, selected_extension)
    \/ \E ext_input \in ExclusionInputs : AddExclusion(ext_input)
    \/ \E selected \in edited_config.excluded_extensions : RemoveExclusion(selected)
    \/ \E folder_input \in FolderInputs : AddFolderExclusion(folder_input)
    \/ \E selected \in edited_config.excluded_folders : RemoveFolderExclusion(selected)
    \/ SaveChanges
    \/ CancelChanges
    \/ SaveOpen
    \/ SaveWrite
    \/ SaveClose
    \/ ThenLoadConfig
    \/ LoadConfig

SpecEditor == InitEditor /\ [][NextEditor]_vars


---------------------------------------------------------------------------
(* Claims about categorize_file, under SpecCategorize. *)

\* the file name categorize_file was called with has returned
Categorized == pc = "done" /\ entry = "categorize_file"

\* the lower-cased extension of the file that was categorised
CurExt == Lower(SplitExt(cur.filename)[2])

\* C1: whenever the lower-cased extension of the file is in
\* excluded_extensions, categorize_file returns the excluded sentinel (None,
\* None), whether or not a category declares the extension and whatever the
\* default category is.
C1_ExclusionTakesPrecedence ==
    Categorized /\ CurExt \in config.excluded_extensions
        => cur.category = NoneValue /\ cur.relative_path = NoneValue

\* an excluded extension that a category also declares, written in upper case
\* in the file name, with a default category that is itself a category
C1_Witness ==
    /\ Categorized
    /\ CurExt \in config.excluded_extensions
    /\ CurExt \in DOMAIN extension_map
    /\ cur.filename # Lower(cur.filename)
    /\ config.default_category = Pic
    /\ cur.category = NoneValue

\* the last category, in stored order, that declares extension e (lower-cased)
LastDeclaring(cats, e) ==
    LET hits == {k \in 1..Len(cats) :
                    \E j \in 1..Len(cats[k].exts) : Lower(cats[k].exts[j]) = e}
    IN IF hits = {} THEN NoneValue
       ELSE cats[CHOOSE k \in hits : \A j \in hits : j <= k].name

\* C10: for a file that is not excluded, the resolved category is the
\* extension map's entry for the lower-cased extension (the last category
\* declaring it), or default_category when no category declares it; the
\* destination directory is target/category/extension-without-dot when that
\* category differs from default_category and the extension is not empty, and
\* target/category otherwise.
C10_DestinationLayout ==
    Categorized /\ CurExt \notin config.excluded_extensions
        => LET declared == LastDeclaring(config.categories, CurExt)
               category == IF declared = NoneValue THEN config.default_category
                           ELSE declared
               expected == IF category # config.default_category /\ CurExt # <<>>
                           THEN <<category, Tail(CurExt)>>
                           ELSE <<category>>
           IN /\ cur.category = category
              /\ Norm(Join(target_dir, cur.relative_path)) = Norm(Join(target_dir, expected))

\* a mapped extension whose category is the default category (no type folder)
\* next to a configuration where the same file gets Pic/jpg
C10_Witness ==
    /\ Categorized
    /\ cur.filename = a_JPG
    /\ cur.category = Pic
    /\ config.default_category = Pic
    /\ cur.relative_path = <<Pic>>

---------------------------------------------------------------------------
(* Claims about get_unique_target_path, under SpecUnique. *)

UniqueReturned == pc = "done" /\ entry = "get_unique_target_path"

\* the candidate name(k).ext in the directory of the call
Candidate(k) == Join(cur.category_dir, <<CounterName(cur.filename, k)>>)

\* the plain candidate dir/filename
Plain == Join(cur.category_dir, <<cur.filename>>)

\* the path the claim promises: dir/filename when free, else name(k).ext for
\* the least k >= 1 that is free
LeastFree ==
    IF Norm(Plain) \notin DOMAIN fs0 THEN Plain
    ELSE LET n == Cardinality(DOMAIN fs0) + 1
             free == {k \in 1..n : Norm(Candidate(k)) \notin DOMAIN fs0}
         IN Candidate(CHOOSE k \in free : \A j \in free : k <= j)

\* what holds in every state of a call: the filesystem is not touched, the
\* counter never passes the number of entries of the directory by more than
\* one, and the returned path does not exist, is the least free candidate and
\* is name(N+1).ext when name.ext, name(1).ext .. name(N).ext are all taken
UniqueStateOK ==
    /\ fs = fs0
    /\ pc = "unique" => cur.counter <= Cardinality(Entries(fs, cur.category_dir)) + 1
    /\ UniqueReturned =>
         /\ Norm(cur.target_path) \notin DOMAIN fs
         /\ cur.target_path = LeastFree
         /\ \A n \in 0..(MaxPre + 2) :
              (/\ Norm(Plain) \in DOMAIN fs
               /\ \A k \in 1..n : Norm(Candidate(k)) \in DOMAIN fs
               /\ Norm(Candidate(n + 1)) \notin DOMAIN fs)
                 => cur.target_path = Candidate(n + 1)

\* C4: get_unique_target_path never returns a path that exists at call time;
\* it returns dir/filename when that is free and otherwise name(k).ext for the
\* smallest k >= 1 whose path is free (name(N+1).ext after N collisions), and
\* the probe loop terminates.
C4_UniquePath == []UniqueStateOK /\ <>UniqueReturned

\* name.ext, name(1).ext and name(2).ext are taken (name(1).ext by a
\* directory) and name(3).ext is returned
C4_Witness ==
    /\ UniqueReturned
    /\ cur.filename = a_jpg
    /\ Norm(Plain) \in DOMAIN fs
    /\ IsDir(fs, Candidate(1))
    /\ IsFile(fs, Candidate(2))
    /\ cur.target_path = Candidate(3)
    /\ cur.counter = 4

---------------------------------------------------------------------------
(* Claims about discover_files, under SpecWalk. *)

Discovered == pc = "done" /\ entry = "discover_files"

\* the candidate list so far, as a set of normalised paths
Found == {Norm(all_files[k]) : k \in 1..Len(all_files)}

\* path p has, among its components first..last, a directory name that is
\* excluded when compared case-insensitively
ExcludedAmong(p, first, last) ==
    \E k \in first..last : Lower(p[k]) \in config.excluded_folders

\* C2 as stated: no returned file lies beneath a directory with an excluded
\* base name - the source directory, which every returned file lies beneath,
\* counted among the directories.
C2_AsStated ==
    \A p \in Found : ~ExcludedAmong(p, Len(Norm(source_dir)), Len(p) - 1)

\* C2, amended: no returned file lies beneath a subdirectory of the source
\* directory (at any depth below it) whose base name is, case-insensitively,
\* in excluded_folders, and os.walk never lists such a subdirectory nor
\* anything below it; the source directory itself is walked whatever its name.
C2_ExcludedFoldersPruned ==
    /\ \A p \in Found : ~ExcludedAmong(p, Len(Norm(source_dir)) + 1, Len(p) - 1)
    /\ \A d \in visited : ~ExcludedAmong(d, Len(Norm(source_dir)) + 1, Len(d))

\* the tree holds a file two levels below a folder excluded in another
\* spelling (Tmp/sub) and one below a nested excluded folder (sub/tmp); the
\* walk is over and returned another file
C2_Witness ==
    /\ Discovered
    /\ tmp \in config.excluded_folders
    /\ Join(source_dir, <<TmpCap, sub, c_txt>>) \in DOMAIN fs
    /\ Join(source_dir, <<sub, tmp, c_txt>>) \in DOMAIN fs
    /\ Found = {Join(source_dir, <<sub, a_jpg>>)}

\* C3: discover_files never returns a file located in a directory that is the
\* target directory or a descendant of it.
C3_TargetTreeSkipped ==
    \A p \in Found : ~IsPrefix(Norm(target_dir), DirName(p))

\* target is nested under source (and given unnormalised), holds the output
\* of an earlier run, and the walk returned the source's own file only
C3_Witness ==
    /\ Discovered
    /\ target_dir # Norm(target_dir)
    /\ Norm(target_dir) = Join(source_dir, <<out>>)
    /\ Join(source_dir, <<out, Pic, <<"j","p","g">>, a_jpg>>) \in DOMAIN fs
    /\ Join(source_dir, <<out, Pic, <<"j","p","g">>>>) \in visited
    /\ Found = {Join(source_dir, <<a_jpg>>)}

---------------------------------------------------------------------------
(* Claims about a sort run of FileSorter.sort_files, under Spec. *)

Returned == pc = "done" /\ entry = "sort_files"

InLoop == pc \in {"loop", "unique_call", "unique", "process"}

Sum(r) == r.processed + r.skipped + r.errors

\* the step handles a file: the loop index moves on
HandlesFile == idx' # idx

\* exactly one of the three counts grows by one, the others keep their value
OneCountMore ==
    \/ /\ result'.processed = result.processed + 1
       /\ result'.skipped = result.skipped /\ result'.errors = result.errors
    \/ /\ result'.skipped = result.skipped + 1
       /\ result'.processed = result.processed /\ result'.errors = result.errors
    \/ /\ result'.errors = result.errors + 1
       /\ result'.processed = result.processed /\ result'.skipped = result.skipped

C7_State ==
    /\ InLoop => /\ Sum(result) = idx
                 /\ result.total = Len(all_files)
    /\ Returned => /\ Sum(result) = result.total
                   /\ result.total = Len(all_files)

C7_Step ==
    HandlesFile => /\ idx' = idx + 1
                   /\ OneCountMore
                   /\ progress' = Append(progress, Sum(result'))

\* C7: handling a discovered file increments exactly one of processed,
\* skipped, errors by one and invokes progress_callback with the value of
\* processed+skipped+errors at that moment; at return
\* processed+skipped+errors = total = the number of discovered files.
C7_CountsAndProgress == []C7_State /\ [][C7_Step]_vars

\* a finished run that processed, skipped and failed at least one file each
C7_Witness ==
    /\ Returned
    /\ result.processed >= 1 /\ result.skipped >= 1 /\ result.errors >= 1
    /\ progress = <<1, 2, 3>>

---------------------------------------------------------------------------

\* the file at hand, while the loop body runs
SourcePath == all_files[idx + 1]

\* the destination directory already holds an entry with the file's name
Collides == pc = "process" /\ Exists(fs, Join(cur.category_dir, <<cur.filename>>))

\* the filesystem, or the operation asked for, makes process_file fail
OperationFails ==
    \/ faults' = faults + 1
    \/ ~CanProcess(fs, operation, SourcePath, cur.target_path)

\* nothing that exists under target is changed or removed by the step
TargetKept ==
    \A p \in DOMAIN fs : IsPrefix(Norm(target_dir), p) => p \in DOMAIN fs' /\ fs'[p] = fs[p]

\* the counter name chosen for the colliding file: the least free one, logged
C5_Renamed ==
    Collides =>
      /\ \E k \in 1..Cardinality(DOMAIN fs) :
            /\ cur.target_path = Join(cur.category_dir, <<CounterName(cur.filename, k)>>)
            /\ \A j \in 1..(k - 1) :
                 Exists(fs, Join(cur.category_dir, <<CounterName(cur.filename, j)>>))
      /\ ~Exists(fs, cur.target_path)
      /\ log # <<>>
      /\ log[Len(log)] = LogEntry("rename", BaseName(cur.target_path), 0)

\* the file arrives under the counter name with the source's content
Written ==
    /\ Norm(cur.target_path) \in DOMAIN fs'
    /\ fs'[Norm(cur.target_path)] = FileNode(fs[Norm(SourcePath)].data)

\* C5 as stated: a colliding file is written under the counter name, the
\* existing file is left unchanged and processed increments by 1.
C5_AsStated ==
    [][Collides => /\ TargetKept
                   /\ Written
                   /\ result'.processed = result.processed + 1]_vars

C5_Step ==
    Collides =>
      /\ TargetKept
      /\ IF OperationFails
         THEN /\ result'.errors = result.errors + 1
              /\ result'.processed = result.processed
         ELSE /\ Written
              /\ result'.processed = result.processed + 1
              /\ result'.errors = result.errors

\* C5, amended: when the destination directory already contains an entry with
\* the file's name, the counter name name(k).ext (least free k) is chosen and
\* a rename notice is logged; no existing file under target is overwritten;
\* the file is written under the counter name and processed increments by 1
\* unless the copy or move of that file itself fails, in which case errors
\* increments by 1 instead.
C5_CollisionRenamed == []C5_Renamed /\ [][C5_Step]_vars

\* a run that met a pre-existing a.jpg and then the a(1).jpg it had written
\* itself: both source files arrived, the old file is as it was
C5_Witness ==
    /\ Returned
    /\ result.processed = 2
    /\ \E dir \in {DirName(p) : p \in DOMAIN fs} :
         /\ IsPrefix(Norm(target_dir), dir)
         /\ IsFile(fs0, Join(dir, <<a_jpg>>))
         /\ fs[Join(dir, <<a_jpg>>)] = fs0[Join(dir, <<a_jpg>>)]
         /\ ~Exists(fs0, Join(dir, <<CounterName(a_jpg, 1)>>))
         /\ IsFile(fs, Join(dir, <<CounterName(a_jpg, 1)>>))
         /\ IsFile(fs, Join(dir, <<CounterName(a_jpg, 2)>>))
         /\ fs[Join(dir, <<CounterName(a_jpg, 1)>>)] # fs[Join(dir, <<CounterName(a_jpg, 2)>>)]
    /\ Cardinality({k \in 1..Len(log) : log[k].kind = "rename"}) = 2

---------------------------------------------------------------------------

ExcludedFile(p) == Lower(SplitExt(BaseName(p))[2]) \in config.excluded_extensions

\* the directory a file that is not excluded is sorted into
CategoryDirOf(p) == Join(target_dir, categorize_file(config, extension_map, p)[2])

C6_State ==
    /\ \A k \in 1..Len(all_files) :
         ExcludedFile(all_files[k]) =>
           /\ Norm(all_files[k]) \in DOMAIN fs
           /\ fs[Norm(all_files[k])] = fs0[Norm(all_files[k])]
           /\ \A q \in FilesUnder(fs, target_dir) : fs[q].data # <<Norm(all_files[k])>>
    /\ \A q \in DOMAIN fs \ DOMAIN fs0 :
         IsPrefix(Norm(target_dir), q) =>
           \E k \in 1..Len(all_files) :
              /\ ~ExcludedFile(all_files[k])
              /\ \/ q \in Prefixes(Norm(CategoryDirOf(all_files[k])))
                 \/ DirName(q) = Norm(CategoryDirOf(all_files[k]))
    /\ Returned =>
         result.skipped = Cardinality({k \in 1..Len(all_files) : ExcludedFile(all_files[k])})

C6_Step ==
    pc = "loop" /\ idx < Len(all_files) /\ ExcludedFile(SourcePath) =>
      /\ fs' = fs
      /\ result'.skipped = result.skipped + 1
      /\ result'.processed = result.processed
      /\ result'.errors = result.errors
      /\ idx' = idx + 1

\* C6: whatever the operation, a discovered file whose extension is in
\* excluded_extensions is counted in skipped exactly once, stays at its source
\* path unchanged, is neither copied nor moved, gives rise to no file or
\* directory under target, and is not counted in processed or errors.
C6_ExcludedUntouched == []C6_State /\ [][C6_Step]_vars

\* a finished move that skipped b.log, whose extension a category declares
\* too, and moved another file away
C6_Witness ==
    /\ Returned
    /\ operation = "move"
    /\ logx \in DOMAIN extension_map
    /\ result.skipped = 1
    /\ result.processed >= 1
    /\ IsFile(fs, <<src, b_log>>)
    /\ Cardinality(FilesUnder(fs, source_dir)) < Cardinality(FilesUnder(fs0, source_dir))

---------------------------------------------------------------------------

C9_Step ==
    pc = "process" /\ OperationFails =>
      /\ result'.errors = result.errors + 1
      /\ result'.processed = result.processed
      /\ result'.skipped = result.skipped
      /\ log' = Append(log, LogEntry("error", cur.filename, 0))
      /\ idx' = idx + 1
      /\ pc' = "loop"

\* C9: a failure of a single file's copy or move is recovered per file: errors
\* increments by one, processed does not, the failure is logged, and the loop
\* goes on with the next file; the run ends only when every discovered file
\* has been handled.
C9_PerFileRecovery ==
    /\ [][C9_Step]_vars
    /\ [](Returned => idx = Len(all_files) /\ Sum(result) = Len(all_files))

\* a finished run whose first file failed and whose last file was processed
C9_Witness ==
    /\ Returned
    /\ Len(all_files) = 3
    /\ result.errors = 1
    /\ result.processed = 2
    /\ \E k \in 1..Len(log) :
          log[k] = LogEntry("error", BaseName(all_files[1]), 0)
    /\ \E q \in FilesUnder(fs, target_dir) : fs[q].data = <<Norm(all_files[3])>>
    /\ \A q \in FilesUnder(fs, target_dir) : fs[q].data # <<Norm(all_files[1])>>

---------------------------------------------------------------------------
(* Claims about the progress updates of a run, under SpecRun: the engine's  *)
(* sort_files with a progress callback, and the application's sort thread.  *)

\* the run is past its discovery: the candidate list is complete
DiscoveryOver ==
    pc \in {"found", "loop", "unique_call", "unique", "process", "done",
            "app_loop", "app_file", "app_after", "app_done", "app_cancelled",
            "app_failed"}

\* the run has ended, in whatever way
RunOver == pc \in {"done", "app_done", "app_cancelled", "app_failed"}

\* the run has ended by leaving its file loop at the end of the list
RanToEnd == pc \in {"done", "app_done"}

StrictlyIncreasing(p) == \A j, k \in 1..Len(p) : j < k => p[j] < p[k]

\* C8 as the specification states it: updates come only after discovery, with
\* strictly increasing values, and a run that has ended has emitted exactly
\* one update per discovered file.
C8_AsStated ==
    /\ progress # <<>> => DiscoveryOver
    /\ StrictlyIncreasing(progress)
    /\ RunOver => Len(progress) = Len(all_files)

\* the updates so far are one per file whose loop iteration is over, in the
\* order of the list, the k-th carrying the value k
C8_State ==
    /\ progress # <<>> => DiscoveryOver
    /\ StrictlyIncreasing(progress)
    /\ Len(progress) <= Len(all_files)
    /\ DiscoveryOver => Len(progress) = idx
    /\ \A k \in 1..Len(progress) : progress[k] = k
    /\ RanToEnd => Len(progress) = Len(all_files)

\* a step emits at most one update, for the file the loop then leaves, and
\* the candidate list is fixed once an update has been emitted
C8_Step ==
    /\ progress' # progress =>
          /\ \E v \in 1..Len(all_files) : progress' = Append(progress, v)
          /\ idx' = idx + 1
          /\ all_files' = all_files
    /\ progress # <<>> => all_files' = all_files

\* C8 (amended): progress updates of a run are emitted only after discovery
\* has finished, at most once per discovered file and with strictly
\* increasing values, the k-th update carrying the value k for the k-th file
\* of the list, skipped and errored files included; a run that reaches the
\* end of its file loop has emitted exactly one update per discovered file,
\* and a run of the application cut short by the closing of its window has
\* emitted updates for a prefix of the list only.
C8_ProgressUpdates == []C8_State /\ [][C8_Step]_vars

\* an application run that ran to its end over a skipped and a failed file,
\* each of which got its update
C8_Witness ==
    /\ pc = "app_done"
    /\ result.skipped >= 1
    /\ result.errors >= 1
    /\ Len(all_files) >= 2
    /\ progress = [k \in 1..Len(all_files) |-> k]

---------------------------------------------------------------------------
(* Claims about validate_directories, under SpecValidate. *)

Validated == pc = "done" /\ entry = "validate_directories"

\* the target is the source or lies below it, component by component
TargetAtOrBelowSource == IsPrefix(Norm(source_dir), Norm(target_dir))

\* what the pre-flight check is specified to accept
DirectoriesAcceptable ==
    /\ source_dir # <<>>
    /\ IsDir(fs, source_dir)
    /\ target_dir # <<>>
    /\ ~TargetAtOrBelowSource

\* C11 as the specification states it: validate_directories returns None
\* exactly when the source is an existing directory, the target is not empty
\* and the target is neither the source nor a descendant of it; otherwise it
\* returns an error; and the filesystem is left as it was.
C11_AsStated ==
    Validated =>
        /\ ret = NoneValue <=> DirectoriesAcceptable
        /\ ret # NoneValue => ret \in {SourceInvalid, TargetMissing, TargetInsideSource}
        /\ fs = fs0

\* what holds of validate_directories: the same, for every source directory
\* but the root of the filesystem
C11_ExceptAtRoot ==
    Validated /\ Norm(source_dir) # <<>> =>
        /\ ret = NoneValue <=> DirectoriesAcceptable
        /\ fs = fs0

\* a target below the root directory has been validated against the root
C11_Witness ==
    /\ Validated
    /\ source_dir = Root
    /\ Norm(target_dir) # <<>>
    /\ target_dir # <<>>

---------------------------------------------------------------------------
(* Claims about the pre-flight check of a run, under SpecApp. *)

\* the sort thread has been launched (and may have ended since)
ThreadLaunched == pc \notin {"app_idle", "app_refused"}

\* every file is where it was and holds what it held
NoFileTouched ==
    LET files(f) == {p \in DOMAIN f : f[p].kind = "file"} IN
    /\ files(fs) = files(fs0)
    /\ \A p \in files(fs) : fs[p] = fs0[p]

\* C12 as the specification states it: when the target is the source or is
\* nested inside it, the pre-flight check refuses: no sort thread is
\* launched, no discovery walk is started and no file is copied or moved.
C12_AsStated ==
    target_dir # NoPath /\ TargetAtOrBelowSource =>
        /\ ~ThreadLaunched
        /\ visited = {}
        /\ all_files = <<>>
        /\ NoFileTouched

\* what holds of start_sorting_thread: the same, for every source directory
\* but the root of the filesystem
C12_ExceptAtRoot ==
    target_dir # NoPath /\ TargetAtOrBelowSource /\ Norm(source_dir) # <<>> =>
        /\ ~ThreadLaunched
        /\ visited = {}
        /\ all_files = <<>>
        /\ NoFileTouched

\* a start with the target nested in the source has been refused
C12_Witness ==
    /\ pc = "app_refused"
    /\ target_dir # NoPath
    /\ Norm(target_dir) # Norm(source_dir)
    /\ TargetAtOrBelowSource
    /\ NoFileTouched

---------------------------------------------------------------------------
(* Claims about a run that discovers nothing, under Spec. *)

\* sort_files has returned and had found no candidate file
ReturnedEmpty == entry = "sort_files" /\ pc = "done" /\ all_files = <<>>

---------------------------------------------------------------------------
(* Claims about cancellation, under SpecRun: the host's liveness predicate  *)
(* is the existence of its window.                                          *)

\* the step begins the handling of the next file of the list
BeginsFile ==
    \/ pc = "loop" /\ idx < Len(all_files) /\ (pc' = "unique_call" \/ idx' = idx + 1)
    \/ pc = "app_loop" /\ pc' = "app_file"

\* a file is in hand: its handling began while the window existed
FileInHand == pc \in {"unique_call", "unique", "process", "app_file"}

\* without the window no new file is begun, the filesystem changes only for
\* the file in hand, and what was copied or moved stays as it is
StopsWithoutWindow ==
    ~window_exists =>
        /\ ~BeginsFile
        /\ ~FileInHand => fs' = fs
        /\ \A p \in DOMAIN fs : IsPrefix(Norm(target_dir), p) => p \in DOMAIN fs'

\* the counters count the files handled and no others: their sum grows by
\* one in the step that finishes a file, and in no other step
CountsFilesHandled ==
    Sum(result') # Sum(result) =>
        /\ pc \in {"loop", "process", "app_file"}
        /\ Sum(result') = Sum(result) + 1
        /\ window_exists \/ FileInHand

\* C14 as the specification states it: once the liveness predicate is false
\* the run stops before handling the next file, no further file is copied
\* or moved, the counts are those of the files completed, and nothing is
\* rolled back.
C14_AsStated == [][CountsFilesHandled /\ StopsWithoutWindow]_vars

\* what holds: the same for the sort thread of the application
C14_InApplication ==
    [][entry = "start_sorting_thread" => CountsFilesHandled /\ StopsWithoutWindow]_vars

\* the sort thread of the application has stopped at the window check with
\* some files handled and others left
C14_Witness ==
    /\ pc = "app_cancelled"
    /\ 0 < idx /\ idx < Len(all_files)
    /\ result.processed >= 1
    /\ fs # fs0

---------------------------------------------------------------------------
(* C15: saving the configuration. *)

\* what the configuration file holds: its text, or nothing when it is absent
ConfigText(f) == IF IsFile(f, ConfigFile) THEN <<f[ConfigFile].data>> ELSE <<>>

\* C15 as stated: at every point of a save, a crash or a write failure
\* part-way through included, the configuration file holds the complete
\* previous document or the complete new document.
C15_AsStated ==
    ConfigText(fs) = ConfigText(fs0) \/ ConfigText(fs) = <<Dump(Writing)>>

\* what the code does give: a save that reports success has left the complete
\* new document, and one that fails reports it and has logged the failure
C15_CompletedSave ==
    (pc = "done" /\ entry = "save_config")
        => \/ ret = TrueValue /\ ConfigText(fs) = <<Dump(to_dict(config))>>
           \/ ret = FalseValue /\ log # <<>>

\* save_config has returned False, or the process was killed, and the file
\* that held a complete document is left empty or cut off
C15_Witness ==
    /\ entry \in Savers
    /\ pc \in {"done", "crashed"}
    /\ ConfigText(fs0) # <<>>
    /\ ConfigText(fs) # ConfigText(fs0)
    /\ ConfigText(fs) # <<Dump(to_dict(config))>>

---------------------------------------------------------------------------
(* C16: loading without a configuration file. *)

\* two configurations sort alike
Equivalent(c, d) ==
    /\ build_extension_map(c) = build_extension_map(d)
    /\ c.excluded_extensions = d.excluded_extensions
    /\ c.excluded_folders = d.excluded_folders
    /\ c.default_category = d.default_category

\* load_config has returned, the file having been absent when it was called
LoadedWithoutFile ==
    entry = "load_config" /\ pc = "done" /\ ~IsFile(fs0, ConfigFile)

\* the file holds a complete document with sample categories, and loading it
\* gives what the call returned
DefaultWritten ==
    /\ IsFile(fs, ConfigFile)
    /\ ~IsError(Parse(fs[ConfigFile].data))
    /\ IsDict(Parse(fs[ConfigFile].data))
    /\ Get(Parse(fs[ConfigFile].data), Kategorien, JObj(<<>>))[2] # <<>>
    /\ config.categories # <<>>
    /\ Equivalent(Loaded(fs), config)

\* C16 as stated: with the file absent, load_config writes a default document
\* with sample categories and returns a configuration equivalent to it.
C16_AsStated == LoadedWithoutFile => DefaultWritten

\* C16, amended: so it is when the file could be written; when the open or a
\* write failed, the failure is logged, the empty default configuration is
\* returned and no complete document is left.
C16_DefaultWhenWritable ==
    LoadedWithoutFile =>
        IF faults = 0 THEN DefaultWritten
        ELSE /\ config = EmptyConfig
             /\ log[Len(log)].text = "FEHLER Speichern Config"
             /\ IsFile(fs, ConfigFile) => IsError(Parse(fs[ConfigFile].data))

C16_Witness == LoadedWithoutFile /\ faults = 0 /\ DefaultWritten

---------------------------------------------------------------------------
(* C17: loading a file that is not a configuration document. *)

\* the file was there when load_config was called, and its text is not JSON
\* or is a JSON value other than an object
Unparsable ==
    /\ entry = "load_config"
    /\ IsFile(fs0, ConfigFile)
    /\ \/ IsError(Parse(fs0[ConfigFile].data))
       \/ ~IsDict(Parse(fs0[ConfigFile].data))

\* C17: on such a file load_config returns (it does not raise) the empty
\* default configuration, has logged the problem, and has left the file's
\* content as it was.
C17_UnparsableFile ==
    Unparsable =>
        /\ pc \in {"idle", "done", "tripped"}
        /\ pc = "idle" => ENABLED LoadConfig
        /\ pc # "idle" => /\ config = EmptyConfig
                          /\ log # <<>>
                          /\ log[1].kind = "config"
        /\ fs = fs0

C17_Witness ==
    /\ Unparsable
    /\ pc = "done"
    /\ ~IsError(Parse(fs0[ConfigFile].data))
    /\ config = EmptyConfig
    /\ fs = fs0

---------------------------------------------------------------------------
(* C18: the configuration a loaded document gives. *)

WellFormedExtension(ext) ==
    ext = Lower(ext) /\ StartsWith(ext, <<".">>) /\ Len(ext) >= 2

WellFormedEntries(c) ==
    /\ \A k \in 1..Len(c.categories) :
          /\ c.categories[k].exts # <<>>
          /\ \A j \in 1..Len(c.categories[k].exts) :
                WellFormedExtension(c.categories[k].exts[j])
    /\ \A ext \in c.excluded_extensions : WellFormedExtension(ext)
    /\ \A folder \in c.excluded_folders :
          folder # <<>> /\ folder = Strip(folder) /\ folder = Lower(folder)

NoSeparators(c) ==
    \A folder \in c.excluded_folders :
        \A k \in 1..Len(folder) : folder[k] \notin {"/", "\\"}

\* load_config has returned what it made of the document in the file
LoadedDocument ==
    /\ entry = "load_config"
    /\ pc = "done"
    /\ IsFile(fs0, ConfigFile)

\* C18 as stated: every configuration produced from a loaded document has
\* only non-empty categories of lower-case dotted extensions of two or more
\* characters, such excluded extensions, and excluded folder names that are
\* non-empty, trimmed, lower-case and free of path separators.
C18_AsStated == LoadedDocument => WellFormedEntries(config) /\ NoSeparators(config)

\* what the validators do ensure: everything but the absence of separators
C18_ExceptSeparators == LoadedDocument => WellFormedEntries(config)

\* a folder entry with a separator has come through the load
C18_Witness ==
    /\ LoadedDocument
    /\ faults = 0
    /\ a_b \in config.excluded_folders

---------------------------------------------------------------------------
(* C19: the default category of a configuration made from a document. *)

\* a configuration has been made from the document the file held
FromDocument ==
    /\ entry \in Loaders
    /\ pc = "done"
    /\ IsFile(fs0, ConfigFile)
    /\ ~IsError(Parse(fs0[ConfigFile].data))
    /\ IsDict(Parse(fs0[ConfigFile].data))

\* the document's StandardKategorie is missing, not a str, empty or blank
NoUsableDefault ==
    ~KeepsDefault(Get(Parse(fs0[ConfigFile].data), StandardKategorie, JNum))

DefaultCategoryUsable ==
    /\ Strip(config.default_category) # <<>>
    /\ NoUsableDefault => config.default_category = Unsortiert

\* C19 as stated: whichever way a configuration is obtained from a document,
\* its default_category is not blank, the sentinel standing in for a missing,
\* non-text, empty or blank StandardKategorie.
C19_AsStated == FromDocument => DefaultCategoryUsable

\* so it is for ConfigManager.load_config and for the application's own
\* load_config
C19_ThroughLoadConfig ==
    (FromDocument /\ entry # "from_dict") => DefaultCategoryUsable

\* from_dict has taken a blank StandardKategorie as it is
C19_Witness ==
    /\ FromDocument
    /\ entry = "from_dict"
    /\ Strip(config.default_category) = <<>>

---------------------------------------------------------------------------
(* C20: to_dict followed by from_dict. *)

\* from_dict(to_dict(c)) has been computed for the configuration c that a
\* document gave
Tripped == pc = "tripped"

\* C20: the configuration that from_dict makes of to_dict(c) has the same
\* extension map, the same excluded extensions and folders and the same
\* default category as c.
C20_RoundTrip ==
    Tripped => /\ Typed(to_dict(config))
               /\ Equivalent(ret[2], config)

\* a round trip of a loaded configuration with categories and several
\* exclusions, which to_dict has to put in order
C20_Witness ==
    /\ Tripped
    /\ entry = "load_config"
    /\ config.categories # <<>>
    /\ Cardinality(config.excluded_extensions) >= 2
    /\ Cardinality(config.excluded_folders) >= 2
    /\ Equivalent(ret[2], config)


---------------------------------------------------------------------------
(* C21: build_extension_map, under SpecBuild. *)

\* the extensions a category list declares: its dotted entries, lower-cased
DeclaredExtensions(cats) ==
    {Lower(cats[k].exts[j]) :
        <<k, j>> \in {x \in (1..Len(cats)) \X (1..2) :
                        /\ x[2] <= Len(cats[x[1]].exts)
                        /\ StartsWith(cats[x[1]].exts[x[2]], <<".">>)}}

\* the last category, in stored order, with a dotted entry that lower-cases to e
LastDeclaringDotted(cats, e) ==
    LET hits == {k \in 1..Len(cats) :
                    \E j \in 1..Len(cats[k].exts) :
                        /\ StartsWith(cats[k].exts[j], <<".">>)
                        /\ Lower(cats[k].exts[j]) = e}
    IN cats[CHOOSE k \in hits : \A j \in hits : j <= k].name

Built == entry = "build_extension_map" /\ pc \in {"built", "rebuilt"}

\* what a build returns: exactly the declared extensions as keys, each with
\* the last category declaring it, the same for every configuration with
\* these categories, and the same again on the second build
BuiltMap ==
    /\ Built =>
         /\ DOMAIN ret[2] = DeclaredExtensions(config.categories)
         /\ \A e \in DOMAIN ret[2] :
                ret[2][e] = LastDeclaringDotted(config.categories, e)
         /\ \A c \in BuildConfigs :
                c.categories = config.categories => build_extension_map(c) = ret[2]
    /\ (entry = "build_extension_map" /\ pc = "rebuilt") => ret[2] = extension_map

\* C21: build_extension_map is a function of the categories alone: the map it
\* returns has exactly the declared extensions, lower-cased, as keys, each
\* with the last category in stored order that declares it; configurations
\* with the same categories give the same map; a second build returns a map
\* identical to the first; and a build leaves the configuration as it was.
C21_PureLastWins ==
    /\ []BuiltMap
    /\ [][BuildExtensionMap => config' = config]_vars

\* a second build of a configuration declaring .jpg in three categories, in
\* two spellings
C21_Witness ==
    /\ entry = "build_extension_map" /\ pc = "rebuilt"
    /\ Len(config.categories) = 3
    /\ ret[2][jpg] = Unsortiert
    /\ extension_map = ret[2]

---------------------------------------------------------------------------
(* C22: an extension declared in more than one category, under SpecConfig. *)

\* some extension is declared, in lower case, by two different categories
DeclaredTwice(cats) ==
    \E k1, k2 \in 1..Len(cats) :
        /\ k1 < k2
        /\ \E j1 \in 1..Len(cats[k1].exts), j2 \in 1..Len(cats[k2].exts) :
               /\ StartsWith(cats[k1].exts[j1], <<".">>)
               /\ Lower(cats[k1].exts[j1]) = Lower(cats[k2].exts[j2])

\* the log holds a warning about an extension defined more than once
DuplicateWarned ==
    \E k \in 1..Len(log) : log[k].text = "Warnung: Endung mehrfach definiert"

\* a configuration has been loaded from a file that could be read
LoadedFromFile(e) ==
    /\ entry = e
    /\ pc = "done"
    /\ faults = 0
    /\ IsFile(fs0, ConfigFile)

\* C22 as stated: whenever the loaded categories declare the same lower-cased
\* extension in more than one category, making the effective extension map
\* logs a warning about the duplicate, whichever loader made the
\* configuration.
C22_AsStated ==
    \A e \in {"load_config", "app_load_config"} :
        LoadedFromFile(e) /\ DeclaredTwice(config.categories) => DuplicateWarned

\* the application's own load_config does warn, and the later category wins
C22_InApplication ==
    LoadedFromFile("app_load_config") /\ DeclaredTwice(config.categories)
        => /\ DuplicateWarned
           /\ \A e \in DOMAIN extension_map :
                  extension_map[e] = LastDeclaringDotted(config.categories, e)

\* ConfigManager.load_config has returned categories that declare .jpg twice:
\* nothing about it is logged, and the map built from them gives the later one
C22_Witness ==
    /\ LoadedFromFile("load_config")
    /\ DeclaredTwice(config.categories)
    /\ ~DuplicateWarned
    /\ build_extension_map(config)[jpg] = Doc

---------------------------------------------------------------------------
(* C27: completeness of discover_files, under SpecWalk. *)

\* the files the walk is to return: below the source, beneath no excluded
\* subdirectory, and not in the target directory or a descendant of it
Candidates ==
    {p \in FilesUnder(fs, source_dir) :
        /\ ~ExcludedAmong(p, Len(Norm(source_dir)) + 1, Len(p) - 1)
        /\ ~IsPrefix(Norm(target_dir), DirName(p))}

\* p is listed exactly once
ReturnedOnce(p) == Cardinality({k \in 1..Len(all_files) : Norm(all_files[k]) = p}) = 1

\* the directory of p is spelled, as an absolute path, with the target's
\* absolute path as its first characters
LooksLikeTarget(p) == StartsWith(AbsPath(DirName(p)), AbsPath(target_dir))

\* C27 as stated: every file under the source that is neither beneath an
\* excluded subdirectory nor inside the target tree is returned exactly once,
\* files in a directory whose path merely begins with the characters of the
\* target's path included.
C27_AsStated == Discovered => \A p \in Candidates : ReturnedOnce(p)

\* what is returned: every such file whose directory's absolute path does not
\* begin with the characters of the target's, once, and no file twice
C27_ExceptLookalikes ==
    Discovered =>
        /\ \A p \in Candidates : ~LooksLikeTarget(p) => ReturnedOnce(p)
        /\ \A p \in Found : ReturnedOnce(p)

\* the source holds out2/c.txt next to the target out: the walk is over and
\* the file, outside the target tree and beneath no excluded folder, is
\* missing from the list
C27_Witness ==
    /\ Discovered
    /\ Norm(target_dir) = Join(source_dir, <<out>>)
    /\ Join(source_dir, <<out \o <<"2">>, c_txt>>) \in Candidates
    /\ Join(source_dir, <<out \o <<"2">>, c_txt>>) \notin Found

---------------------------------------------------------------------------
(* C30: a start that is refused, under SpecApp. *)

StartRefused == entry = "start_sorting_thread" /\ pc = "app_refused"

\* C30 as stated: whenever start_sorting_thread refuses a request, it has
\* changed nothing in the filesystem; in particular the target directory has
\* not been made when the check for a target equal to or nested in the source
\* refuses.
C30_AsStated == StartRefused => fs = fs0

\* what a refusal leaves behind: no file is touched and no directory removed;
\* the only additions are the target directory and its missing parents, made
\* after the user agreed to its creation
C30_OnlyTargetMade ==
    StartRefused =>
        /\ NoFileTouched
        /\ \A p \in DOMAIN fs0 : p \in DOMAIN fs
        /\ \A p \in DOMAIN fs \ DOMAIN fs0 :
               fs[p].kind = "dir" /\ IsPrefix(p, Norm(target_dir))

\* the target field was empty, the default target source/Sorted_Files was
\* accepted and made, and the start was then refused for nesting
C30_Witness ==
    /\ StartRefused
    /\ target_dir = Join(source_dir, <<Sorted_Files>>)
    /\ ~Exists(fs0, target_dir)
    /\ IsDir(fs, target_dir)
    /\ log # <<>>

---------------------------------------------------------------------------
(* C28: the target paths of one run, under Spec.  Nothing but the run       *)
(* writes to the filesystem.                                                *)

\* the files under target that were not there when the run began
NewFiles == FilesUnder(fs, target_dir) \ FilesUnder(fs0, target_dir)

\* those of them that hold the whole content of a source file
Arrived == {p \in NewFiles : fs[p].data # PartialData}

\* every file that was under target when the run began is as it was
OldFilesKept ==
    \A p \in FilesUnder(fs0, target_dir) : p \in DOMAIN fs /\ fs[p] = fs0[p]

\* a step that processes a file writes it to a path that nothing held, of
\* this run or from before, and keeps everything under target
FreshTarget ==
    result'.processed = result.processed + 1 =>
        /\ ~Exists(fs, cur.target_path)
        /\ IsFile(fs', cur.target_path)
        /\ FilesUnder(fs', target_dir) = FilesUnder(fs, target_dir) \cup {Norm(cur.target_path)}
        /\ TargetKept

\* C28 as stated: any two files processed in one run have distinct target
\* paths; with the copy operation the number of files under target grows by
\* exactly processed, and no file that was under target before is modified.
C28_AsStated ==
    /\ [](entry = "sort_files" /\ operation = "copy" =>
            /\ Cardinality(FilesUnder(fs, target_dir))
                 = Cardinality(FilesUnder(fs0, target_dir)) + result.processed
            /\ OldFilesKept)
    /\ [][FreshTarget]_vars

\* what holds: distinct target paths, old files kept, and as many files
\* arrived whole as were processed, whatever the operation; a copy or move
\* that fails may leave one more file, a partial one, under target
C28_ExceptPartialFiles ==
    /\ [](entry = "sort_files" =>
            /\ Cardinality(Arrived) = result.processed
            /\ Cardinality(NewFiles) <= result.processed + result.errors
            /\ OldFilesKept)
    /\ [][FreshTarget]_vars

\* a copy run has returned with one file processed and one failed, and two
\* new files under target, one of them cut off
C28_Witness ==
    /\ Returned
    /\ operation = "copy"
    /\ result.processed = 1 /\ result.errors = 1
    /\ Cardinality(NewFiles) = 2
    /\ Cardinality(Arrived) = 1

---------------------------------------------------------------------------
(* C26: the two implementations of the sort, under SpecBoth. *)

\* both runs are over: the engine's outcome is in ret, the application's
\* thread has ended
BothDone == entry = "app_sort_files" /\ pc = "app_done"

\* C26: for the same source tree, target, operation (copy or move) and
\* configuration, with no cancellation and no failure other than those the
\* tree itself causes, FileSorter.sort_files and FileSorterApp.sort_files end
\* with the same total, processed, skipped and error counts, have emitted the
\* same sequence of progress values, and have made the same set of files
\* under target.
C26_SameOutcome ==
    BothDone =>
        /\ result = ret[2].result
        /\ progress = ret[2].progress
        /\ NewFiles = ret[2].targets

\* both have processed a file under a counter name, and failed on one whose
\* category directory is taken by a file
C26_Witness ==
    /\ BothDone
    /\ result.processed = 1 /\ result.errors = 1
    /\ progress = <<1, 2>>
    /\ \E p \in NewFiles : BaseName(p) = CounterName(a_jpg, 2)

---------------------------------------------------------------------------
(* C23: one sort run at a time, under SpecRuns. *)

\* C23: the start button is disabled before the sort thread is started and
\* stays so while the thread runs, so that no second run can be started
\* during a run; it becomes enabled again only by the callback the ending
\* thread has scheduled; and after every way a run ends (normal completion,
\* nothing found, fatal error, cancellation) the button is eventually enabled
\* again unless the window is gone.
C23_OneRunAtATime ==
    /\ [](ThreadRunning => start_button # "normal")
    /\ [][start_button = "disabled" /\ start_button' = "normal"
            => ~ThreadRunning /\ Head(after_queue).fn = "enable_start_button"]_vars
    /\ (start_button = "disabled") ~> (start_button = "normal" \/ ~window_exists)

\* a second run has been started from the window after a first run failed,
\* and has ended with the button enabled again
C23_Witness ==
    /\ RunsStarted = 2
    /\ faults = 1
    /\ pc = "app_done"
    /\ window_exists
    /\ start_button = "normal"
    /\ after_queue = <<>>

---------------------------------------------------------------------------
(* C24: the settings editor used during a run, under SpecReload. *)

\* the step reads the configuration: the walk reads excluded_folders, the
\* loop body excluded_extensions, the extension map and the default category
ReadsFolders == pc = "app_walk" /\ walk # <<>> /\ pc' = "app_walk"

ReadsCategories == pc = "app_file" /\ pc' = "app_after"

\* C24 as stated: a run in progress does not observe configuration edits:
\* the extension map, the default category and the exclusion sets a run uses
\* are those in effect when the run started, even if the settings editor
\* saved and the configuration was reloaded while the run was in progress.
C24_AsStated ==
    /\ [][ReadsFolders => config.excluded_folders = StartConfig.excluded_folders]_vars
    /\ [][ReadsCategories =>
            /\ config.excluded_extensions = StartConfig.excluded_extensions
            /\ config.default_category = StartConfig.default_category
            /\ extension_map = build_extension_map(StartConfig)]_vars

\* a run started with .log excluded has ended with b.log in the target, after
\* the editor was used while the run was in progress
C24_Witness ==
    /\ pc = "app_done"
    /\ entry = "start_sorting_thread"
    /\ logx \in StartConfig.excluded_extensions
    /\ IsFile(fs, <<dst, Unsortiert, b_log>>)
    /\ result.skipped = 0

---------------------------------------------------------------------------
(* C25: the settings editor and what it commits, under SpecEditor. *)

\* the editor is open and idle, or was closed by cancel
OpenOrCancelled == entry = "category_editor" /\ pc \in {"editing", "cancelled"}

\* save_config is between its open and the end of its with block
InsideSaveConfig == pc \in {"save_open", "save_write"}

\* save_config has returned False at least once
SaveFailed ==
    \E k \in 1..Len(log) : log[k].text = "FEHLER Speichern Config"

\* a step of the editor leaves the caller's configuration object alone
CallerUntouched == entry = "category_editor" => config' = config

\* C25 as stated: after any sequence of editing operations followed by
\* cancel, or by a save that fails, the caller's configuration object and the
\* configuration file are unchanged; the file changes only through a
\* successful explicit save.
C25_AsStated ==
    /\ [](OpenOrCancelled => fs = fs0)
    /\ [][CallerUntouched]_vars

\* what holds: the caller's object is never written, the file is written
\* only inside save_config, and with the editor open or cancelled the file is
\* as it was unless a save has failed
C25_ExceptFailedWrite ==
    /\ [](OpenOrCancelled => (fs = fs0 \/ SaveFailed))
    /\ [][CallerUntouched /\ (fs' # fs => InsideSaveConfig)]_vars

\* the editor was cancelled after edits and one failed save: the caller's
\* object is the one loaded from the original file, and the file is cut off
C25_Witness ==
    /\ entry = "category_editor"
    /\ pc = "cancelled"
    /\ SaveFailed
    /\ edited_config # config
    /\ config = Loaded(fs0)
    /\ fs[ConfigFile].data # fs0[ConfigFile].data
    /\ IsError(Parse(fs[ConfigFile].data))

---------------------------------------------------------------------------
(* C29: save_config of the edited configuration, then load_config, under  *)
(* SpecEditor.                                                              *)

\* load_config could not read the file
ReadFailed == \E k \in 1..Len(log) : log[k].text = "FEHLER Laden Config"

\* the edited configuration was saved and load_config has returned what it
\* read from the file
ReloadedAfterSave ==
    /\ entry = "load_config"
    /\ pc = "done"
    /\ ~ReadFailed

\* the same category names with the same extension lists, the same default
\* category and the same exclusion sets
SameConfiguration(c, d) ==
    /\ CategoryNames(c) = CategoryNames(d)
    /\ \A name \in CategoryNames(c) : ExtensionsOf(c, name) = ExtensionsOf(d, name)
    /\ c.default_category = d.default_category
    /\ c.excluded_extensions = d.excluded_extensions
    /\ c.excluded_folders = d.excluded_folders

\* c without the categories whose extension list is empty
WithoutEmptyCategories(c) ==
    [c EXCEPT !.categories =
        LET Declares(category) == category.exts # <<>> IN SelectSeq(@, Declares)]

\* C29 as stated: for every configuration reachable through the editor's
\* operations, save_config followed by load_config returns a configuration
\* with the same category names, extension lists, default category and
\* exclusion sets, categories with an empty extension list included.
C29_AsStated == ReloadedAfterSave => SameConfiguration(config, edited_config)

\* what holds: everything comes back but the categories without extensions
C29_ExceptEmptyCategories ==
    ReloadedAfterSave =>
        SameConfiguration(config, WithoutEmptyCategories(edited_config))

\* a category added in the editor was saved and is missing after the reload
C29_Witness ==
    /\ ReloadedAfterSave
    /\ fs[ConfigFile].data = Dump(to_dict(edited_config))
    /\ Neu \in CategoryNames(edited_config)
    /\ ExtensionsOf(edited_config, Neu) = <<>>
    /\ Neu \notin CategoryNames(config)


====
